---- MODULE Spec2Model ----
(***************************************************************************)
(* Error-log collection and classification pipeline of prod_monitoring:    *)
(* log_helper.collect_error_logs -> process_log_events -> anonymizer ->    *)
(* csv_helper.save_error_logs -> classify_and_save_errors.                 *)
(*                                                                         *)
(* Text is modelled as TLA+ strings read character by character.  The      *)
(* regular expressions of the source are transcribed as pattern trees and  *)
(* run by a backtracking matcher with the priority order of Python's re:   *)
(* leftmost match, alternatives left to right, greedy and lazy repeats.    *)
(***************************************************************************)
EXTENDS Integers, Sequences, FiniteSets, TLC

(***************************************************************************)
(* Characters and Python str helpers                                       *)
(***************************************************************************)
Ch(s, i) == SubSeq(s, i, i)

Digits == {"0", "1", "2", "3", "4", "5", "6", "7", "8", "9"}

LowerLetters ==
    {"a", "b", "c", "d", "e", "f", "g", "h", "i", "j", "k", "l", "m",
     "n", "o", "p", "q", "r", "s", "t", "u", "v", "w", "x", "y", "z"}

UpperLetters ==
    {"A", "B", "C", "D", "E", "F", "G", "H", "I", "J", "K", "L", "M",
     "N", "O", "P", "Q", "R", "S", "T", "U", "V", "W", "X", "Y", "Z"}

Letters == LowerLetters \cup UpperLetters

HexLower == Digits \cup {"a", "b", "c", "d", "e", "f"}

\* \w, \s of Python's re on the characters that occur in the inputs
WordChars == Letters \cup Digits \cup {"_"}

Whitespace == {" ", "\t", "\n", "\r", "\f"}

LowerOf ==
    [c \in UpperLetters |->
        CASE c = "A" -> "a" [] c = "B" -> "b" [] c = "C" -> "c" [] c = "D" -> "d"
          [] c = "E" -> "e" [] c = "F" -> "f" [] c = "G" -> "g" [] c = "H" -> "h"
          [] c = "I" -> "i" [] c = "J" -> "j" [] c = "K" -> "k" [] c = "L" -> "l"
          [] c = "M" -> "m" [] c = "N" -> "n" [] c = "O" -> "o" [] c = "P" -> "p"
          [] c = "Q" -> "q" [] c = "R" -> "r" [] c = "S" -> "s" [] c = "T" -> "t"
          [] c = "U" -> "u" [] c = "V" -> "v" [] c = "W" -> "w" [] c = "X" -> "x"
          [] c = "Y" -> "y" [] c = "Z" -> "z"]

Lower(c) == IF c \in UpperLetters THEN LowerOf[c] ELSE c

\* s[:n]
Prefix(s, n) == SubSeq(s, 1, IF Len(s) < n THEN Len(s) ELSE n)

\* s.startswith(prefix)
StartsWith(s, prefix) ==
    /\ Len(s) >= Len(prefix)
    /\ SubSeq(s, 1, Len(prefix)) = prefix

\* s[i:].startswith(lit) at the 1-based position i
LitAt(s, i, lit) ==
    /\ i + Len(lit) - 1 <= Len(s)
    /\ SubSeq(s, i, i + Len(lit) - 1) = lit

\* `sub in s`
Contains(s, sub) == \E i \in 1..(Len(s) - Len(sub) + 1) : LitAt(s, i, sub)

\* position of the first / last occurrence of the character c in s, 0 if none
FirstIndexOf(s, c) ==
    LET hits == {i \in 1..Len(s) : Ch(s, i) = c}
    IN  IF hits = {} THEN 0 ELSE CHOOSE i \in hits : \A j \in hits : i <= j

LastIndexOf(s, c) ==
    LET hits == {i \in 1..Len(s) : Ch(s, i) = c}
    IN  IF hits = {} THEN 0 ELSE CHOOSE i \in hits : \A j \in hits : i >= j

\* s.split(c)[-1] and s.split(c)[0]
LastSegment(s, c) == SubSeq(s, LastIndexOf(s, c) + 1, Len(s))

FirstSegment(s, c) ==
    IF FirstIndexOf(s, c) = 0 THEN s ELSE SubSeq(s, 1, FirstIndexOf(s, c) - 1)

\* s.strip()
Strip(s) ==
    LET solid == {i \in 1..Len(s) : Ch(s, i) \notin Whitespace}
    IN  IF solid = {} THEN ""
        ELSE SubSeq(s, CHOOSE i \in solid : \A j \in solid : i <= j,
                       CHOOSE i \in solid : \A j \in solid : i >= j)

\* the least and the greatest element of a non-empty set of integers
MinOf(S) == CHOOSE x \in S : \A y \in S : x <= y
MaxOf(S) == CHOOSE x \in S : \A y \in S : x >= y

\* ''.join(pieces), by halving the index range
RECURSIVE JoinRange(_, _, _)
JoinRange(pieces, a, b) ==
    IF a > b THEN ""
    ELSE IF a = b THEN pieces[a]
    ELSE JoinRange(pieces, a, (a + b) \div 2) \o JoinRange(pieces, (a + b) \div 2 + 1, b)

Flatten(pieces) == JoinRange(pieces, 1, Len(pieces))

\* sep.join(parts)
Join(parts, sep) ==
    Flatten([i \in 1..(2 * Len(parts) - 1) |->
                IF i % 2 = 1 THEN parts[(i + 1) \div 2] ELSE sep])

\* s.split(c): the list of the segments between the occurrences of c
SplitOn(s, c) ==
    LET cuts   == {i \in 1..Len(s) : Ch(s, i) = c}
        cut(k) == IF k = 0 THEN 0
                  ELSE IF k > Cardinality(cuts) THEN Len(s) + 1
                  ELSE CHOOSE i \in cuts : Cardinality({j \in cuts : j < i}) = k - 1
    IN  [k \in 1..(Cardinality(cuts) + 1) |-> SubSeq(s, cut(k - 1) + 1, cut(k) - 1)]

\* ' '.join(s.split()): every run of whitespace becomes one space, none at
\* either end
CollapseWhitespace(s) ==
    LET solid(i) == Ch(s, i) \notin Whitespace
    IN  Flatten([i \in 1..Len(s) |->
                    IF solid(i) THEN Ch(s, i)
                    ELSE IF i > 1 /\ solid(i - 1) /\ \E j \in (i + 1)..Len(s) : solid(j)
                         THEN " " ELSE ""])

\* s.replace(old, new) for a one-character old
ReplaceChar(s, old, new) ==
    Flatten([i \in 1..Len(s) |-> IF Ch(s, i) = old THEN new ELSE Ch(s, i)])

(***************************************************************************)
(* Regular expressions (Python re): pattern trees and the matcher          *)
(***************************************************************************)
Inf == -1

Lit(str)        == [t |-> "lit", s |-> str]
Cls(S)          == [t |-> "cls", s |-> S]
NCls(S)         == [t |-> "ncls", s |-> S]
Cat(k)          == [t |-> "cat", k |-> k]
Alt(k)          == [t |-> "alt", k |-> k]
Rep(x, lo, hi)  == [t |-> "rep", x |-> x, lo |-> lo, hi |-> hi, lazy |-> FALSE]
Lazy(x, lo, hi) == [t |-> "rep", x |-> x, lo |-> lo, hi |-> hi, lazy |-> TRUE]
Grp(n, x)       == [t |-> "grp", n |-> n, x |-> x]
Mark(n, side)   == [t |-> "mark", n |-> n, side |-> side]
Ahead(x)        == [t |-> "ahead", x |-> x]
WordB           == [t |-> "wordb"]
EndS            == [t |-> "end"]

Opt(x)     == Rep(x, 0, 1)
Plus(x)    == Rep(x, 1, Inf)
Star(x)    == Rep(x, 0, Inf)
Times(x, n) == Rep(x, n, n)

Dot   == NCls({"\n"})
RE_d  == Cls(Digits)
RE_w  == Cls(WordChars)
RE_s  == Cls(Whitespace)
RE_S  == NCls(Whitespace)

\* highest group number used by a pattern of the source
NGroups == 5

NoGroups == [n \in 1..NGroups |-> <<0, 0>>]

\* a failed match; a match state is [p: next position, g: group spans]
Fail == [p |-> 0, g |-> NoGroups]

IsWordAt(s, i) == i >= 1 /\ i <= Len(s) /\ Ch(s, i) \in WordChars

\* one character against a one-character node; with IGNORECASE (ic) a letter
\* matches in either case (the character sets of the IGNORECASE patterns of
\* the source hold lower-case letters only)
CharOK(n, c, ic) ==
    CASE n.t = "cls"  -> c \in n.s \/ (ic /\ Lower(c) \in n.s)
      [] n.t = "ncls" -> ~(c \in n.s \/ (ic /\ Lower(c) \in n.s))
      [] OTHER        -> FALSE

LitOK(s, p, lit, ic) ==
    /\ p + Len(lit) - 1 <= Len(s)
    /\ IF ic
       THEN \A j \in 1..Len(lit) : Lower(Ch(s, p + j - 1)) = Lower(Ch(lit, j))
       ELSE SubSeq(s, p, p + Len(lit) - 1) = lit

IsCharNode(n) == n.t \in {"cls", "ncls"}

\* number of consecutive characters from p that match the node n, at most cap
RunLen(n, s, p, cap, ic) ==
    LET limit == IF cap = Inf \/ p + cap - 1 > Len(s) THEN Len(s) ELSE p + cap - 1
        stop  == CHOOSE j \in p..(limit + 1) :
                    /\ j = limit + 1 \/ ~CharOK(n, Ch(s, j), ic)
                    /\ \A i \in p..(j - 1) : CharOK(n, Ch(s, i), ic)
    IN  stop - p

RECURSIVE Match(_, _, _, _)
RECURSIVE TryAlt(_, _, _, _, _, _)

\* Match the nodes of k one after the other from the state st; the result
\* is the state of the first success in backtracking order, or Fail.
Match(k, s, st, ic) ==
    IF Len(k) = 0 THEN st
    ELSE
    LET n    == Head(k)
        rest == Tail(k)
        p    == st.p
    IN  CASE n.t = "lit" ->
               IF LitOK(s, p, n.s, ic)
               THEN Match(rest, s, [st EXCEPT !.p = p + Len(n.s)], ic)
               ELSE Fail
          [] n.t \in {"cls", "ncls"} ->
               IF p <= Len(s) /\ CharOK(n, Ch(s, p), ic)
               THEN Match(rest, s, [st EXCEPT !.p = p + 1], ic)
               ELSE Fail
          [] n.t = "cat" -> Match(n.k \o rest, s, st, ic)
          [] n.t = "alt" -> TryAlt(n.k, 1, rest, s, st, ic)
          [] n.t = "grp" ->
               Match(<<Mark(n.n, 1), n.x, Mark(n.n, 2)>> \o rest, s, st, ic)
          [] n.t = "mark" ->
               Match(rest, s, [st EXCEPT !.g[n.n][n.side] = p], ic)
          [] n.t = "wordb" ->
               IF IsWordAt(s, p - 1) # IsWordAt(s, p)
               THEN Match(rest, s, st, ic) ELSE Fail
          [] n.t = "end" ->
               IF p = Len(s) + 1 \/ (p = Len(s) /\ Ch(s, p) = "\n")
               THEN Match(rest, s, st, ic) ELSE Fail
          [] n.t = "ahead" ->
               IF Match(<<n.x>>, s, st, ic).p # 0
               THEN Match(rest, s, st, ic) ELSE Fail
          [] n.t = "rep" ->
               IF IsCharNode(n.x)
               THEN \* a repeated character: the counts after which the rest
                    \* matches; the greatest (greedy) or the least (lazy) wins
                    LET m    == RunLen(n.x, s, p, n.hi, ic)
                        after(cnt) == Match(rest, s, [st EXCEPT !.p = p + cnt], ic)
                        good == {cnt \in n.lo..m : after(cnt).p # 0}
                    IN  IF good = {} THEN Fail
                        ELSE IF n.lazy THEN after(MinOf(good)) ELSE after(MaxOf(good))
               ELSE \* a repeated group: one more round first (greedy) or last (lazy)
                    LET more == Match(<<n.x, [n EXCEPT !.lo = IF n.lo > 0 THEN n.lo - 1 ELSE 0,
                                                       !.hi = IF n.hi = Inf THEN Inf ELSE n.hi - 1]>>
                                         \o rest, s, st, ic)
                        stop == IF n.lo <= 0 THEN Match(rest, s, st, ic) ELSE Fail
                    IN  IF n.hi = 0 THEN stop
                        ELSE IF n.lazy
                             THEN IF stop.p # 0 THEN stop ELSE more
                             ELSE IF more.p # 0 THEN more ELSE stop

TryAlt(alts, i, rest, s, st, ic) ==
    IF i > Len(alts) THEN Fail
    ELSE LET r == Match(<<alts[i]>> \o rest, s, st, ic)
         IN  IF r.p # 0 THEN r ELSE TryAlt(alts, i + 1, rest, s, st, ic)

NoMatch == [b |-> 0, e |-> 0, g |-> NoGroups]

\* the matches [b, e) of re that start at each position of s
MatchesOf(re, s, ic) ==
    {m \in {LET r == Match(<<re>>, s, [p |-> i, g |-> NoGroups], ic)
            IN  [b |-> i, e |-> r.p, g |-> r.g] : i \in 1..(Len(s) + 1)} : m.e # 0}

\* the leftmost of the matches that start at position i or later
FirstFrom(matches, i) ==
    LET later == {m \in matches : m.b >= i}
    IN  IF later = {} THEN NoMatch
        ELSE CHOOSE m \in later : \A o \in later : m.b <= o.b

\* re.search(re, s), and with flags=re.IGNORECASE
Search(re, s)  == FirstFrom(MatchesOf(re, s, FALSE), 1)
SearchI(re, s) == FirstFrom(MatchesOf(re, s, TRUE), 1)

\* m.group(n)
Group(s, m, n) == SubSeq(s, m.g[n][1], m.g[n][2] - 1)

\* a replacement template is a list of parts [g, s]: group g if g > 0, else
\* the literal s
T(str) == [g |-> 0, s |-> str]
G(n)   == [g |-> n, s |-> ""]

Expand(tpl, s, m) ==
    Flatten([i \in 1..Len(tpl) |->
                IF tpl[i].g > 0 THEN Group(s, m, tpl[i].g) ELSE tpl[i].s])

\* re.sub: the non-overlapping matches from left to right, each replaced (no
\* pattern of the source matches the empty string)
RECURSIVE SubFrom(_, _, _, _)
SubFrom(matches, tpl, s, i) ==
    LET m == FirstFrom(matches, i)
    IN  IF m.b = 0 THEN SubSeq(s, i, Len(s))
        ELSE SubSeq(s, i, m.b - 1) \o Expand(tpl, s, m) \o SubFrom(matches, tpl, s, m.e)

Sub(re, tpl, s)  == SubFrom(MatchesOf(re, s, FALSE), tpl, s, 1)
SubI(re, tpl, s) == SubFrom(MatchesOf(re, s, TRUE), tpl, s, 1)

\* a substitution rule: re.sub(re, tpl, text), with flags=re.IGNORECASE if ic
Rule(re, tpl)  == [re |-> re, tpl |-> tpl, ic |-> FALSE]
RuleI(re, tpl) == [re |-> re, tpl |-> tpl, ic |-> TRUE]

\* the rules applied one after the other, each to the result of the one
\* before (no rule changes the empty string)
RECURSIVE ApplyFrom(_, _, _)
ApplyFrom(rules, i, s) ==
    IF i > Len(rules) \/ s = "" THEN s
    ELSE ApplyFrom(rules, i + 1,
                   SubFrom(MatchesOf(rules[i].re, s, rules[i].ic), rules[i].tpl, s, 1))

ApplyRules(rules, s) == ApplyFrom(rules, 1, s)

(***************************************************************************)
(* csv_helper._normalize_error_message                                     *)
(***************************************************************************)
Hex == Cls(HexLower)

\* r'\b[0-9a-f]{8}-[0-9a-f]{4}-[0-9a-f]{4}-[0-9a-f]{4}-[0-9a-f]{12}\b' (IGNORECASE)
UuidPattern ==
    Cat(<<WordB, Times(Hex, 8), Lit("-"), Times(Hex, 4), Lit("-"), Times(Hex, 4),
          Lit("-"), Times(Hex, 4), Lit("-"), Times(Hex, 12), WordB>>)

\* r'\b[0-9a-f]{16}\b'
HexIdPattern == Cat(<<WordB, Times(Hex, 16), WordB>>)

\* r'\d{4}-\d{2}-\d{2}T\d{2}:\d{2}:\d{2}(?:\.\d+)?Z?'
TimestampPattern ==
    Cat(<<Times(RE_d, 4), Lit("-"), Times(RE_d, 2), Lit("-"), Times(RE_d, 2), Lit("T"),
          Times(RE_d, 2), Lit(":"), Times(RE_d, 2), Lit(":"), Times(RE_d, 2),
          Opt(Cat(<<Lit("."), Plus(RE_d)>>)), Opt(Cls({"Z"}))>>)

\* r'\d{2}:\d{2}:\d{2}\.\d+'
TimePattern ==
    Cat(<<Times(RE_d, 2), Lit(":"), Times(RE_d, 2), Lit(":"), Times(RE_d, 2),
          Lit("."), Plus(RE_d)>>)

\* r"'[0-9]+'"
QuotedIdPattern == Cat(<<Lit("'"), Plus(Cls(Digits)), Lit("'")>>)

\* r'\[\w+_\w+_\w+_\w+\d+\]'
TenantTokenPattern ==
    Cat(<<Lit("["), Plus(RE_w), Lit("_"), Plus(RE_w), Lit("_"), Plus(RE_w), Lit("_"),
          Plus(RE_w), Plus(RE_d), Lit("]")>>)

\* r'<name>\{[^}]+\}' for BaseSCRRequest, RequestedChanges, ActivityChange
WrapperPattern(name) == Cat(<<Lit(name), Lit("{"), Plus(NCls({"}"})), Lit("}")>>)

\* r'\[[^\]]{50,}\]'
LongBracketPattern == Cat(<<Lit("["), Rep(NCls({"]"}), 50, Inf), Lit("]")>>)

\* r'\b\d{3,}\b'
NumberPattern == Cat(<<WordB, Rep(RE_d, 3, Inf), WordB>>)

normalize_rules ==
    <<RuleI(UuidPattern, <<T("[UUID]")>>),
      Rule(HexIdPattern, <<T("[HEX-ID]")>>),
      Rule(TimestampPattern, <<T("[TIMESTAMP]")>>),
      Rule(TimePattern, <<T("[TIME]")>>),
      Rule(QuotedIdPattern, <<T("'[ID]'")>>),
      Rule(TenantTokenPattern, <<T("[TENANT]")>>),
      Rule(WrapperPattern("BaseSCRRequest"), <<T("BaseSCRRequest{...}")>>),
      Rule(WrapperPattern("RequestedChanges"), <<T("RequestedChanges{...}")>>),
      Rule(WrapperPattern("ActivityChange"), <<T("ActivityChange{...}")>>),
      Rule(LongBracketPattern, <<T("[...]")>>),
      Rule(NumberPattern, <<T("[NUM]")>>)>>

_normalize_error_message(message) ==
    CollapseWhitespace(ApplyRules(normalize_rules, message))

(***************************************************************************)
(* anonymizer.py                                                           *)
(***************************************************************************)
AlNum == Letters \cup Digits

\* r"\[[A-Za-z0-9][A-Za-z0-9._]*\d{3,}\]"
BracketTenantPattern ==
    Cat(<<Lit("["), Cls(AlNum), Star(Cls(AlNum \cup {".", "_"})), Rep(RE_d, 3, Inf), Lit("]")>>)

\* r"\[(tenant|customer|org|organization|account)[:=]\s*[^\]]+\]" (IGNORECASE)
BracketKeyTenantPattern ==
    Cat(<<Lit("["),
          Grp(1, Alt(<<Lit("tenant"), Lit("customer"), Lit("org"), Lit("organization"),
                       Lit("account")>>)),
          Cls({":", "="}), Star(RE_s), Plus(NCls({"]"})), Lit("]")>>)

\* r"\b(tenantId|tenantID|tenant|tenantName|customer|customerName|organization|
\*   organizationName|org|account|accountName)\b\s*[:=]\s*
\*   ('([^']+)'|\"([^\"]+)\"|([^,\s\]}]+))" (IGNORECASE)
KeyValueTenantPattern ==
    Cat(<<WordB,
          Grp(1, Alt(<<Lit("tenantId"), Lit("tenantID"), Lit("tenant"), Lit("tenantName"),
                       Lit("customer"), Lit("customerName"), Lit("organization"),
                       Lit("organizationName"), Lit("org"), Lit("account"),
                       Lit("accountName")>>)),
          WordB, Star(RE_s), Cls({":", "="}), Star(RE_s),
          Grp(2, Alt(<<Cat(<<Lit("'"), Grp(3, Plus(NCls({"'"}))), Lit("'")>>),
                       Cat(<<Lit("\""), Grp(4, Plus(NCls({"\""}))), Lit("\"")>>),
                       Grp(5, Plus(NCls({",", "]", "}"} \cup Whitespace)))>>))>>)

\* r"(/tenants/)([^/?\s]+)" (IGNORECASE)
TenantPathPattern ==
    Cat(<<Grp(1, Lit("/tenants/")), Grp(2, Plus(NCls({"/", "?"} \cup Whitespace)))>>)

\* r"(tenant(?:Id|ID|Name)?=)([^&\s]+)" (IGNORECASE)
TenantQueryPattern ==
    Cat(<<Grp(1, Cat(<<Lit("tenant"), Opt(Alt(<<Lit("Id"), Lit("ID"), Lit("Name")>>)),
                       Lit("=")>>)),
          Grp(2, Plus(NCls({"&"} \cup Whitespace)))>>)

tenant_rules ==
    <<Rule(BracketTenantPattern, <<T("[TENANT_REDACTED]")>>),
      RuleI(BracketKeyTenantPattern, <<T("[TENANT_REDACTED]")>>),
      RuleI(KeyValueTenantPattern, <<G(1), T("=[TENANT_REDACTED]")>>),
      RuleI(TenantPathPattern, <<G(1), T("[TENANT_REDACTED]")>>),
      RuleI(TenantQueryPattern, <<G(1), T("[TENANT_REDACTED]")>>)>>

_redact_tenant_like_values(text) ==
    IF text = "" THEN text ELSE ApplyRules(tenant_rules, text)

\* r'\b[A-Za-z0-9._%+-]+@[A-Za-z0-9.-]+\.[A-Z|a-z]{2,}\b'
EmailPattern ==
    Cat(<<WordB, Plus(Cls(AlNum \cup {".", "_", "%", "+", "-"})), Lit("@"),
          Plus(Cls(AlNum \cup {".", "-"})), Lit("."),
          Rep(Cls(Letters \cup {"|"}), 2, Inf), WordB>>)

\* r"<field>='([^']+)'" for userName, statusUpdaterName, userComment
QuotedFieldPattern(field) ==
    Cat(<<Lit(field), Lit("='"), Grp(1, Plus(NCls({"'"}))), Lit("'")>>)

\* r'"userName"\s*:\s*"([^"]+)"'
JsonUserNamePattern ==
    Cat(<<Lit("\"userName\""), Star(RE_s), Lit(":"), Star(RE_s), Lit("\""),
          Grp(1, Plus(NCls({"\""}))), Lit("\"")>>)

\* r'\b([A-Z][a-z]+\s+[A-Z][a-z]+)\b(?=[\s,\'\"])'
FirstLastPattern ==
    Cat(<<WordB,
          Grp(1, Cat(<<Cls(UpperLetters), Plus(Cls(LowerLetters)), Plus(RE_s),
                       Cls(UpperLetters), Plus(Cls(LowerLetters))>>)),
          WordB, Ahead(Cls(Whitespace \cup {",", "'", "\""}))>>)

\* r'\[user:\s*([^\]]+)\]' (IGNORECASE)
BracketUserPattern ==
    Cat(<<Lit("[user:"), Star(RE_s), Grp(1, Plus(NCls({"]"}))), Lit("]")>>)

\* r'\b\d{3}[-.\s]?\d{3}[-.\s]?\d{4}\b'
PhonePattern ==
    Cat(<<WordB, Times(RE_d, 3), Opt(Cls({"-", "."} \cup Whitespace)), Times(RE_d, 3),
          Opt(Cls({"-", "."} \cup Whitespace)), Times(RE_d, 4), WordB>>)

pii_rules ==
    <<Rule(EmailPattern, <<T("[EMAIL_REDACTED]")>>),
      Rule(QuotedFieldPattern("userName"), <<T("userName='[USER_NAME_REDACTED]'")>>),
      Rule(JsonUserNamePattern, <<T("\"userName\":\"[USER_NAME_REDACTED]\"")>>),
      Rule(FirstLastPattern, <<T("[NAME_REDACTED]")>>),
      Rule(QuotedFieldPattern("statusUpdaterName"), <<T("statusUpdaterName='[NAME_REDACTED]'")>>),
      Rule(QuotedFieldPattern("userComment"), <<T("userComment='[COMMENT_REDACTED]'")>>),
      RuleI(BracketUserPattern, <<T("[user:[USER_REDACTED]]")>>),
      Rule(PhonePattern, <<T("[PHONE_REDACTED]")>>)>>

\* tenant masking, the eight PII substitutions, tenant masking again
anonymize_log_message(message) ==
    IF message = "" \/ Strip(message) = "" THEN message
    ELSE ApplyRules(tenant_rules \o pii_rules \o tenant_rules, message)

(***************************************************************************)
(* log_helper.py: exclusion and noise-line cleaning                        *)
(***************************************************************************)
exclude_patterns == {"NotificationDispatcherImpl"}

noise_patterns ==
    {"shared.restclient", "platform.shared", "platform.boot", "java.base",
     "org.springframework", "org.apache", "jakarta.servlet", "jdk.internal",
     "fasterxml.jackson"}

\* a rule that knows blank messages only: rejected by C7_RowsAreSurvivingEvents
ExcludeBlankOnly(message) == message = "" \/ Strip(message) = ""

should_exclude_log(message) ==
    IF message = "" \/ Strip(message) = "" THEN TRUE
    ELSE \E pattern \in exclude_patterns : Contains(message, pattern)

clean_log_message(message) ==
    IF message = "" \/ Strip(message) = "" THEN ""
    ELSE
    LET normalized(line) ==
            CollapseWhitespace(ReplaceChar(ReplaceChar(line, "\r", " "), "\t", " "))
        kept(line) ==
            /\ Strip(line) # ""
            /\ ~\E pattern \in noise_patterns : Contains(line, pattern)
            /\ normalized(line) # ""
        lines == SelectSeq(SplitOn(message, "\n"), kept)
    IN  Join([i \in 1..Len(lines) |-> normalized(lines[i])], "\n")

(***************************************************************************)
(* csv_helper._extract_error_location and _extract_error_signature         *)
(***************************************************************************)
\* r'at (com\.nice\.saas\.wfo\.\w+\.[\w\.]+)\.(\w+)\('
at_pattern ==
    Cat(<<Lit("at "),
          Grp(1, Cat(<<Lit("com.nice.saas.wfo."), Plus(RE_w), Lit("."),
                       Plus(Cls(WordChars \cup {"."}))>>)),
          Lit("."), Grp(2, Plus(RE_w)), Lit("(")>>)

\* r'ERROR\s+(com\.nice\.saas\.wfo\.\S+)'
location_error_pattern ==
    Cat(<<Lit("ERROR"), Plus(RE_s), Grp(1, Cat(<<Lit("com.nice.saas.wfo."), Plus(RE_S)>>))>>)

_extract_error_location(log_message) ==
    LET at_match    == Search(at_pattern, log_message)
        error_match == Search(location_error_pattern, log_message)
    IN  IF at_match.b # 0
        THEN LastSegment(Group(log_message, at_match, 1), ".") \o "."
                \o Group(log_message, at_match, 2)
        ELSE IF error_match.b # 0
        THEN LastSegment(Group(log_message, error_match, 1), ".")
        ELSE "Unknown"

\* r'\b\w+\{[^\n\r]{0,2000}\}'; the replacement keeps m.group(0) up to its
\* first '{', which is the \w+ part, captured here as group 1
PayloadPattern ==
    Cat(<<WordB, Grp(1, Plus(RE_w)), Lit("{"), Rep(NCls({"\n", "\r"}), 0, 2000), Lit("}")>>)

\* r'\[[^\]]{40,}\]'
BracketBlockPattern == Cat(<<Lit("["), Rep(NCls({"]"}), 40, Inf), Lit("]")>>)

\* r'https?://\S+'
UrlPattern == Cat(<<Lit("http"), Opt(Cls({"s"})), Lit("://"), Plus(RE_S)>>)

\* r"\b\w+=[^,\s]{12,}"
LongKeyValuePattern ==
    Cat(<<WordB, Plus(RE_w), Lit("="), Rep(NCls({","} \cup Whitespace), 12, Inf)>>)

\* r"'[^']{12,}'" and r'"[^"]{12,}"'
LongQuotedPattern(q) == Cat(<<Lit(q), Rep(NCls({q}), 12, Inf), Lit(q)>>)

first_error_line_rules ==
    <<Rule(PayloadPattern, <<G(1), T("{...}")>>),
      Rule(BracketBlockPattern, <<T("[...]")>>),
      Rule(UrlPattern, <<T("[URL]")>>),
      Rule(LongKeyValuePattern, <<T("key=[...]")>>),
      Rule(LongQuotedPattern("'"), <<T("'[...']")>>),
      Rule(LongQuotedPattern("\""), <<T("\"...\"")>>),
      Rule(Plus(RE_s), <<T(" ")>>)>>

_normalize_first_error_line(text) ==
    IF text = "" THEN "" ELSE Strip(ApplyRules(first_error_line_rules, text))

\* r'\bERROR\s+(\S+)'
logger_pattern == Cat(<<WordB, Lit("ERROR"), Plus(RE_s), Grp(1, Plus(RE_S))>>)

\* (?:\n|$)
LineEnd == Alt(<<Lit("\n"), EndS>>)

\* r'(java\.lang\.\w+Exception|com\.nice\.saas\.wfo\.\S+Exception|\w+Exception):\s*(.+?)(?:\n|$)'
exception_pattern ==
    Cat(<<Grp(1, Alt(<<Cat(<<Lit("java.lang."), Plus(RE_w), Lit("Exception")>>),
                       Cat(<<Lit("com.nice.saas.wfo."), Plus(RE_S), Lit("Exception")>>),
                       Cat(<<Plus(RE_w), Lit("Exception")>>)>>)),
          Lit(":"), Star(RE_s), Grp(2, Lazy(Dot, 1, Inf)), LineEnd>>)

\* r'\bERROR\b[^\n]*?\]\s+(.+?)(?:\n|$)'
first_error_line_pattern ==
    Cat(<<WordB, Lit("ERROR"), WordB, Lazy(NCls({"\n"}), 0, Inf), Lit("]"), Plus(RE_s),
          Grp(1, Lazy(Dot, 1, Inf)), LineEnd>>)

\* r'ERROR\s+(\S+)\s+.*?\]\s+(.+?)(?:\n|$)'
error_pattern ==
    Cat(<<Lit("ERROR"), Plus(RE_s), Grp(1, Plus(RE_S)), Plus(RE_s), Lazy(Dot, 0, Inf),
          Lit("]"), Plus(RE_s), Grp(2, Lazy(Dot, 1, Inf)), LineEnd>>)

\* the first-line cut of the fallback rule: log_message.split('\n')[0][:200]
FirstLineLimit == 200

\* line 305-307: first_logger, from the match of logger_pattern
FirstLogger(log_message, m_logger) ==
    IF m_logger.b # 0 THEN LastSegment(Group(log_message, m_logger, 1), ".") ELSE ""

\* line 327-330: first_error_line, from the match of first_error_line_pattern
FirstErrorLine(log_message, m_msg) ==
    IF m_msg.b # 0 THEN Strip(Group(log_message, m_msg, 1)) ELSE ""

\* line 318-323: is_generic
IsGeneric(normalized_message) ==
    \/ normalized_message = ""
    \/ normalized_message \in {"", "{}", "unknown", "n/a"}
    \/ StartsWith(normalized_message, "at com.")
    \/ StartsWith(normalized_message, "at org.")

\* line 334-340: the signature of the generic branch
GenericSignature(exception_type, first_logger, first_error_line_norm) ==
    Join(<<exception_type>>
            \o (IF first_logger # "" THEN <<first_logger>> ELSE <<>>)
            \o (IF first_error_line_norm # "" THEN <<first_error_line_norm>> ELSE <<>>),
         " | ")

\* line 312-345: the result when exception_pattern matched
ExceptionSignature(log_message, exception_type, normalized_message) ==
    <<exception_type,
      _extract_error_location(log_message),
      IF IsGeneric(normalized_message)
      THEN GenericSignature(
               exception_type,
               FirstLogger(log_message, Search(logger_pattern, log_message)),
               _normalize_error_message(_normalize_first_error_line(
                   FirstErrorLine(log_message, Search(first_error_line_pattern, log_message)))))
      ELSE exception_type \o ": " \o normalized_message>>

\* line 353-357: the result when error_pattern matched
ErrorSignature(log_message, class_name, error_msg) ==
    <<"ERROR", class_name,
      "ERROR in " \o class_name \o ": " \o _normalize_error_message(error_msg)>>

\* line 359-361: the result when neither pattern matched
FirstLineSignature(log_message) ==
    <<"Unknown", "Unknown",
      _normalize_error_message(Prefix(FirstSegment(log_message, "\n"), FirstLineLimit))>>

\* line 347-361: the fallback to the ERROR pattern
ErrorFallback(log_message, error_match) ==
    IF error_match.b # 0
    THEN ErrorSignature(log_message,
                        LastSegment(Group(log_message, error_match, 1), "."),
                        Strip(Group(log_message, error_match, 2)))
    ELSE FirstLineSignature(log_message)

\* the branches with the ERROR-marker rule tried before the exception rule:
\* rejected by C16_FirstMatchWins
SignatureBranchesMarkerFirst(log_message, exception_match) ==
    IF Search(error_pattern, log_message).b # 0
    THEN ErrorFallback(log_message, Search(error_pattern, log_message))
    ELSE IF exception_match.b # 0
    THEN ExceptionSignature(log_message,
                            LastSegment(Group(log_message, exception_match, 1), "."),
                            _normalize_error_message(
                                Strip(Group(log_message, exception_match, 2))))
    ELSE FirstLineSignature(log_message)

\* line 309-361: the branches on the match of exception_pattern
SignatureBranches(log_message, exception_match) ==
    IF exception_match.b # 0
    THEN ExceptionSignature(log_message,
                            LastSegment(Group(log_message, exception_match, 1), "."),
                            _normalize_error_message(
                                Strip(Group(log_message, exception_match, 2))))
    ELSE ErrorFallback(log_message, Search(error_pattern, log_message))

\* (error_type, location, signature)
_extract_error_signature(log_message) ==
    IF log_message = "" \/ Strip(log_message) = ""
    THEN <<"Unknown", "Unknown", "Empty log message">>
    ELSE SignatureBranches(log_message, Search(exception_pattern, log_message))

(***************************************************************************)
(* log_helper.process_log_events                                           *)
(***************************************************************************)
DigitStr == <<"0", "1", "2", "3", "4", "5", "6", "7", "8", "9">>

\* str(n) for n >= 0
RECURSIVE ItoA(_)
ItoA(n) == IF n < 10 THEN DigitStr[n + 1] ELSE ItoA(n \div 10) \o DigitStr[(n % 10) + 1]

\* n in decimal, zero-padded to width w
RECURSIVE Pad(_, _)
Pad(n, w) == IF w = 0 THEN "" ELSE Pad(n \div 10, w - 1) \o DigitStr[(n % 10) + 1]

\* the calendar date <<year, month, day>> of a day number counted from
\* 1970-01-01 (proleptic Gregorian calendar, as datetime computes it)
CivilFromDays(days) ==
    LET z   == days + 719468
        era == z \div 146097
        doe == z - era * 146097
        yoe == (doe - doe \div 1460 + doe \div 36524 - doe \div 146096) \div 365
        doy == doe - (365 * yoe + yoe \div 4 - yoe \div 100)
        mp  == (5 * doy + 2) \div 153
        d   == doy - (153 * mp + 2) \div 5 + 1
        mo  == IF mp < 10 THEN mp + 3 ELSE mp - 9
        yr  == yoe + era * 400 + (IF mo <= 2 THEN 1 ELSE 0)
    IN  <<yr, mo, d>>

\* datetime.fromtimestamp(ts).isoformat() for an instant held as whole
\* seconds and microseconds (an epoch-millisecond value exceeds TLC's
\* integers); the process's local zone is UTC.  isoformat() prints the
\* fraction only when it is not zero.
IsoFormat(sec, usec) ==
    LET date == CivilFromDays(sec \div 86400)
        tod  == sec % 86400
    IN  Pad(date[1], 4) \o "-" \o Pad(date[2], 2) \o "-" \o Pad(date[3], 2) \o "T"
          \o Pad(tod \div 3600, 2) \o ":" \o Pad((tod % 3600) \div 60, 2) \o ":"
          \o Pad(tod % 60, 2)
          \o (IF usec = 0 THEN "" ELSE "." \o Pad(usec, 6))

ANONYMIZE_LOGS == TRUE

\* the body of the loop of process_log_events for one event: the rows it
\* adds to log_rows (none or one).  An event is [sec, ms, message], its
\* 'timestamp' being sec * 1000 + ms.
EventRows(event) ==
    IF should_exclude_log(event.message) THEN <<>>
    ELSE LET cleaned_message == clean_log_message(event.message)
         IN  IF cleaned_message = "" THEN <<>>
             ELSE <<[timestamp   |-> IsoFormat(event.sec, event.ms * 1000),
                     log_message |-> IF ANONYMIZE_LOGS
                                     THEN anonymize_log_message(cleaned_message)
                                     ELSE cleaned_message]>>

(***************************************************************************)
(* csv.writer (QUOTE_MINIMAL, the default dialect) and csv.DictReader.     *)
(* A file is the list of its records, each held as its encoded text.       *)
(***************************************************************************)
CsvSpecial == {",", "\"", "\n", "\r"}

\* one field as the writer emits it: quoted, with quotes doubled, if it
\* holds the delimiter, the quote character or a line-terminator character
CsvField(field) ==
    IF \E i \in 1..Len(field) : Ch(field, i) \in CsvSpecial
    THEN "\"" \o Join(SplitOn(field, "\""), "\"\"") \o "\""
    ELSE field

\* writer.writerow(fields), without the line terminator
CsvRecord(fields) == Join([k \in 1..Len(fields) |-> CsvField(fields[k])], ",")

\* one encoded field as the reader returns it
CsvUnquote(raw) ==
    IF Len(raw) >= 2 /\ Ch(raw, 1) = "\""
    THEN LET inner   == SubSeq(raw, 2, Len(raw) - 1)
             quotes  == {i \in 1..Len(inner) : Ch(inner, i) = "\""}
             \* of each doubled quote the second character is dropped
             dropped == {i \in quotes : Cardinality({q \in quotes : q < i}) % 2 = 1}
             cut(k)  == IF k = 0 THEN 0
                        ELSE IF k > Cardinality(dropped) THEN Len(inner) + 1
                        ELSE CHOOSE i \in dropped : Cardinality({q \in dropped : q < i}) = k - 1
         IN  Flatten([k \in 1..(Cardinality(dropped) + 1) |->
                         SubSeq(inner, cut(k - 1) + 1, cut(k) - 1)])
    ELSE raw

\* the fields of one record: split at the delimiters outside quotes
ParseCsvRecord(line) ==
    LET quotes == {i \in 1..Len(line) : Ch(line, i) = "\""}
        commas == {i \in 1..Len(line) :
                      /\ Ch(line, i) = ","
                      /\ Cardinality({q \in quotes : q < i}) % 2 = 0}
        nth(k) == CHOOSE c \in commas : Cardinality({d \in commas : d < c}) = k - 1
        first(k) == IF k = 1 THEN 1 ELSE nth(k - 1) + 1
        last(k)  == IF k = Cardinality(commas) + 1 THEN Len(line) ELSE nth(k) - 1
    IN  [k \in 1..(Cardinality(commas) + 1) |-> CsvUnquote(SubSeq(line, first(k), last(k)))]

\* row.get(name, '') of the DictReader row for one record
RowGet(fieldnames, record, name) ==
    IF \E k \in 1..Len(fieldnames) : fieldnames[k] = name /\ k <= Len(record)
    THEN record[CHOOSE k \in 1..Len(fieldnames) : fieldnames[k] = name /\ k <= Len(record)]
    ELSE ""

(***************************************************************************)
(* The log groups the model runs on: the events CloudWatch holds for the   *)
(* requested time range, in the order filter_log_events returns them       *)
(***************************************************************************)
MaxStreamLen == 3

MaxPageLen == 2

Event(sec, ms, message) == [sec |-> sec, ms |-> ms, message |-> message]

NPE1 ==
    Event(1700000000, 0,
          "java.lang.NullPointerException: user 3f2b8c1e-1a2b-4c3d-8e9f-0123456789ab at 2024-01-02T03:04:05 id 12345")

NPE2 ==
    Event(1700000060, 123,
          "java.lang.NullPointerException: user 9a8b7c6d-5e4f-4a3b-9c2d-ba9876543210 at 2024-02-03T04:05:06 id 67890")

TIMEOUT ==
    Event(1700000120, 0,
          "2024-01-02 03:04:05 ERROR com.nice.saas.wfo.OrderService [main] Timeout calling billing, retry \"later\"\n\tat com.nice.saas.wfo.order.OrderService.call(OrderService.java:42)\n\tat org.springframework.web.Dispatcher.run(Dispatcher.java:7)")

LOGIN == Event(1700000180, 5, "WARN login failed for bob@mail.com tenant=acme_corp123")

DISPATCH == Event(1700000240, 0, "ERROR x.NotificationDispatcherImpl [main] failed to dispatch")

NOISE == Event(1700000300, 0, "\tat org.springframework.web.Dispatcher.run(Dispatcher.java:7)\n  ")

BLANK == Event(1700000360, 0, " \t ")

THROTTLE == Event(1700000420, 0, "ThrottlingException: Rate exceeded")

PoolEvents == {NPE1, NPE2, TIMEOUT, DISPATCH}

GeneralStreams == UNION {[1..n -> PoolEvents] : n \in 0..MaxStreamLen}

SpecialStreams ==
    {<<THROTTLE>>, <<BLANK, NPE1>>, <<Event(1700000480, 0, "")>>,
     <<LOGIN>>, <<NOISE>>, <<TIMEOUT, DISPATCH, NOISE, NPE1>>, <<LOGIN, DISPATCH, NOISE>>,
     <<TIMEOUT, LOGIN, NPE1>>, <<LOGIN, NPE2, NPE1>>, <<NOISE, NPE1, NPE2>>}

\* a message template is a list of parts; a part that names a hole is
\* replaced by the value the binding gives it
Fill(template, binding) ==
    Flatten([j \in 1..Len(template) |->
                IF template[j] \in DOMAIN binding THEN binding[template[j]] ELSE template[j]])

\* the two events of a template, one per binding
PairStream(template, binding1, binding2) ==
    <<Event(1700000500, 0, Fill(template, binding1)),
      Event(1700000560, 250, Fill(template, binding2))>>

\* two values of each dynamic kind: a UUID, an ISO timestamp, a 5-digit id
DynamicValues1 ==
    ("<uuid>" :> "3f2b8c1e-1a2b-4c3d-8e9f-0123456789ab")
        @@ ("<ts>" :> "2024-01-02T03:04:05") @@ ("<id>" :> "12345")

DynamicValues2 ==
    ("<uuid>" :> "9a8b7c6d-5e4f-4a3b-9c2d-ba9876543210")
        @@ ("<ts>" :> "2024-02-03T04:05:06") @@ ("<id>" :> "67890")

LongLine ==
    "WARN batch import finished with warnings: skipped malformed record; skipped malformed record; skipped malformed record; skipped malformed record; skipped malformed record; last session "

DedupTemplates ==
    {<<"java.lang.NullPointerException: user ", "<uuid>", " at ", "<ts>", " id ", "<id>">>,
     <<"ERROR com.nice.saas.wfo.OrderService [main] order ", "<id>", " for session ",
       "<uuid>", " failed at ", "<ts>">>,
     <<"WARN session ", "<uuid>", " expired at ", "<ts>", " code ", "<id>">>,
     <<"FooException: order_", "<id>", " failed for ", "<uuid>", " at ", "<ts>">>,
     <<LongLine, "<uuid>", " closed at ", "<ts>", " code ", "<id>">>}

DedupStreams == {PairStream(tpl, DynamicValues1, DynamicValues2) : tpl \in DedupTemplates}

\* pairs of exception type names
TypeNames == {<<"NullPointerException", "IllegalStateException">>,
              <<"HttpClientErrorException", "HttpServerErrorException">>}

TypeTemplates ==
    {<<"java.lang.", "<type>", ": value was null">>,
     <<"ERROR com.nice.saas.wfo.OrderService [main] Request failed\n", "<type>", ": {}">>,
     <<"ERROR com.nice.saas.wfo.OrderService [main] Request failed\norg.springframework.web.client.",
       "<type>", ": 502 upstream">>,
     <<"FooException: bad\nCaused by: ", "<type>", ": x">>}

TypeStreams ==
    {PairStream(tpl, "<type>" :> names[1], "<type>" :> names[2]) :
        tpl \in TypeTemplates, names \in TypeNames}

\* 'ERROR <dotted.class.Path>] <text> id=<digits> tenant=[<token+digits>]'
EndToEndTemplates ==
    {<<"ERROR com.acme.Foo] Bad id=", "<id>", " tenant=[", "<tenant>", "]">>,
     <<"ERROR com.nice.saas.wfo.billing.Foo] Invoice rejected id=", "<id>", " tenant=[",
       "<tenant>", "]">>}

EndToEndStreams ==
    {PairStream(tpl, ("<id>" :> "12345") @@ ("<tenant>" :> "acme_corp123"),
                     ("<id>" :> "67890") @@ ("<tenant>" :> "acme_corp456")) :
        tpl \in EndToEndTemplates}

\* two events of one exception line: under different stack frames, under
\* different loggers, and one with and one without the logger prefix
FRAME1 ==
    Event(1700000520, 0,
          "java.lang.IllegalStateException: order rejected\n\tat com.nice.saas.wfo.order.OrderService.call(OrderService.java:42)")

FRAME2 ==
    Event(1700000540, 0,
          "java.lang.IllegalStateException: order rejected\n\tat com.nice.saas.wfo.billing.InvoiceService.post(InvoiceService.java:7)")

LOGGER1 ==
    Event(1700000520, 0,
          "ERROR com.nice.saas.wfo.order.OrderService [main] Request failed\njava.lang.IllegalStateException: order rejected")

LOGGER2 ==
    Event(1700000540, 0,
          "ERROR com.nice.saas.wfo.billing.InvoiceService [main] Request failed\njava.lang.IllegalStateException: order rejected")

FrameStreams ==
    {<<FRAME1, FRAME2>>, <<LOGGER1, LOGGER2>>, <<FRAME1, FRAME1>>,
     <<Event(1700000520, 0, "ERROR in Foo: x"), Event(1700000540, 0, "ERROR a.Foo [main] x")>>}

LogStreams ==
    GeneralStreams \cup SpecialStreams \cup DedupStreams \cup TypeStreams \cup EndToEndStreams
        \cup FrameStreams

LogGroups == {"/aws/ecs/sra"}

\* config.py line 31-38: region code -> (dashboard_name, aws_region,
\* log_group), per service, of the performance environment
SERVICES_METADATA_PERF ==
    {<<<<"SRA", "NA1">>, "perf-wcx-SRA-Dashboard", "us-west-2", "perf-wcx-schedule-rules-automation">>,
     <<<<"SRM", "NA1">>, "perf-wcx-SRM-Dashboard", "us-west-2", "perf-wcx-schedule-requests-manager">>}

\* the log groups whose rows are computed once and looked up afterwards
KnownLogGroups == LogGroups \cup {entry[4] : entry \in SERVICES_METADATA_PERF}

\* str(e) of the exception a fetch raises
FetchErrors == {"ThrottlingException: Rate exceeded",
                "AccessDenied for tenant=acme_corp123 user bob@mail.com"}

\* datetime.now(), as <<seconds, microseconds>>
NowValues == {<<1700000600, 250000>>}

AllEvents == UNION {{stream[j] : j \in 1..Len(stream)} : stream \in LogStreams}

\* log_helper.py line 163-166: the row recorded for a failed fetch
SyntheticRow(group, e, now) ==
    [timestamp   |-> IsoFormat(now[1], now[2]),
     log_message |-> "Log fetch error from " \o group \o ": " \o e]

(***************************************************************************)
(* The per-event and per-message steps are computed once for the events    *)
(* and messages above and looked up afterwards.                            *)
(***************************************************************************)
Tabulated(table, key) == (CHOOSE entry \in table : entry[1] = key)[2]

EventRowsTable == {<<event, EventRows(event)>> : event \in AllEvents}

RECURSIVE ConcatAll(_)
ConcatAll(seqs) == IF Len(seqs) = 0 THEN <<>> ELSE Head(seqs) \o ConcatAll(Tail(seqs))

process_log_events(events) ==
    ConcatAll([j \in 1..Len(events) |->
                  IF events[j] \in AllEvents THEN Tabulated(EventRowsTable, events[j])
                  ELSE EventRows(events[j])])

RowMessages ==
    {entry[2][1].log_message : entry \in {t \in EventRowsTable : Len(t[2]) > 0}}
        \cup {SyntheticRow(group, e, now).log_message :
                 group \in KnownLogGroups, e \in FetchErrors, now \in NowValues}

SignatureTable == {<<msg, _extract_error_signature(msg)>> : msg \in RowMessages}

\* _extract_error_signature(log_message), looked up
Signature(msg) ==
    IF msg \in RowMessages THEN Tabulated(SignatureTable, msg)
    ELSE _extract_error_signature(msg)

(***************************************************************************)
(* Python dict / Counter / defaultdict: the items in insertion order       *)
(***************************************************************************)
DictHas(d, key) == \E j \in 1..Len(d) : d[j].k = key

DictGet(d, key, default) ==
    IF DictHas(d, key) THEN d[CHOOSE j \in 1..Len(d) : d[j].k = key].v ELSE default

\* d[key] = value: a new key goes last, a known key keeps its place
DictSet(d, key, value) ==
    IF DictHas(d, key)
    THEN [j \in 1..Len(d) |-> IF d[j].k = key THEN [k |-> key, v |-> value] ELSE d[j]]
    ELSE Append(d, [k |-> key, v |-> value])

DictKeys(d) == {d[j].k : j \in 1..Len(d)}

\* a counter that forgets the occurrences before: rejected by C1_CountsMatchRows
CounterAssign(counter, key) == DictSet(counter, key, 1)

\* error_signatures[signature] += 1
CounterAdd(counter, key) == DictSet(counter, key, DictGet(counter, key, 0) + 1)

\* a store the latest message overwrites: rejected by C2_SampleIsFirstMessage
StoreLatest(examples, key, msg) == DictSet(examples, key, msg)

\* if signature not in error_examples: error_examples[signature] = log_message
StoreExample(examples, key, msg) ==
    IF DictHas(examples, key) THEN examples ELSE DictSet(examples, key, msg)

\* a list that keeps the first timestamp only: rejected by
\* C23_TimestampsPerOccurrence
KeepFirstTimestamp(timestamps, key, timestamp) ==
    IF DictHas(timestamps, key) THEN timestamps ELSE DictSet(timestamps, key, <<timestamp>>)

\* error_timestamps[signature].append(timestamp), on a defaultdict(list)
AppendTimestamp(timestamps, key, timestamp) ==
    DictSet(timestamps, key, Append(DictGet(timestamps, key, <<>>), timestamp))

\* a descending sort that turns items of equal count around, as reversing an
\* ascending sort would: rejected by C3_RankedOnePerSignature
SortedTiesReversed(items) ==
    LET rank(j) == 1 + Cardinality({h \in 1..Len(items) :
                                       \/ items[h].v > items[j].v
                                       \/ items[h].v = items[j].v /\ h > j})
    IN  [r \in 1..Len(items) |-> items[CHOOSE j \in 1..Len(items) : rank(j) = r]]

\* sorted(error_signatures.items(), key=lambda x: x[1], reverse=True): by
\* count, greatest first; sorted() is stable, also with reverse=True, so
\* items of equal count keep the order they have in the dict
SortedByCount(items) ==
    LET rank(j) == 1 + Cardinality({h \in 1..Len(items) :
                                       \/ items[h].v > items[j].v
                                       \/ items[h].v = items[j].v /\ h < j})
    IN  [r \in 1..Len(items) |-> items[CHOOSE j \in 1..Len(items) : rank(j) = r]]

(***************************************************************************)
(* Configuration                                                           *)
(***************************************************************************)
MAX_LOG_ENTRIES == 10000

MAX_LOG_ITERATIONS == 100

SmallEntryLimit == 2

SmallIterationLimit == 2

\* the max_entries and max_iterations a caller passes (None: the defaults)
EntryLimits == {SmallEntryLimit, MAX_LOG_ENTRIES}

IterationLimits == {SmallIterationLimit, MAX_LOG_ITERATIONS}

\* the runs against an endless source that are explored: under the small
\* iteration limit the special streams, under any limit the stream without
\* events
EndlessExplored(stream, iterations) ==
    \/ iterations = SmallIterationLimit /\ stream \in SpecialStreams
    \/ stream = <<>>

\* the names anonymizer.py defines
AnonymizerNames == {"_redact_tenant_like_values", "anonymize_log_message", "anonymize_csv_file"}

\* csv_helper.py line 22-25: the import of ai_analyzer succeeds only if
\* ai_analyzer's own imports do; it imports anonymize_text from anonymizer
AI_ANALYSIS_AVAILABLE == "anonymize_text" \in AnonymizerNames

\* the locals of classify_and_save_errors assigned before line 149
LocalsBeforeAIStage ==
    {"error_log_path", "dir_path", "classified_path", "error_signatures", "error_examples",
     "error_timestamps", "error_details", "csvfile", "reader", "writer", "sorted_errors"}

\* the names the f-string of line 150 reads
HealthyMessageNames == {"service", "region"}

ErrorLogsHeader == <<"timestamp", "log_message">>

ClassifiedHeader ==
    <<"Error Signature", "Occurrence Count", "Location", "Sample Error Message">>

(***************************************************************************)
(* State                                                                   *)
(***************************************************************************)
VARIABLES
    pc,                 \* where collect_error_logs stands
    log_group,          \* argument
    log_stream,         \* what CloudWatch holds for the log group
    max_entries,        \* argument (after the defaults)
    max_iterations,     \* argument (after the defaults)
    fetched,            \* history: the events received so far
    requests,           \* history: per fetch, the nextToken sent, the events and the nextToken returned
    anonymized,         \* history: the values anonymize_log_message returned
    fetch_error,        \* history: str(e) of the fetch exception caught
    error_log_rows,
    next_token,         \* <<>> is None, <<t>> the token t
    iteration_count,
    error_logs_csv,     \* the records of error_logs.csv, <<>> while not written
    reader_pos,         \* records of error_logs.csv the DictReader has consumed
    error_signatures,
    error_examples,
    error_timestamps,
    error_details,
    sorted_errors,
    classified_csv,     \* the records of classified_errors.csv
    classification_warning,  \* the exception save_error_logs caught, "" if none
    ai_stage,           \* which branch of the AI stage ran
    returned,           \* <<>> until collect_error_logs returns <<n>>
    source_endless,     \* the log source answers every request with a nextToken
    ai_importable,      \* csv_helper's AI_ANALYSIS_AVAILABLE, set when it is imported
    ai_files,           \* the files the AI stage has written
    selected_pairings,  \* the (service_name, region_code) the two loops visit
    pairing_index,      \* pairings the loops have left behind
    region_pc,          \* where collect_metrics_data_for_region stands
    metric_index,       \* metric types the loop of line 156 has left behind
    metric_files,       \* history: the grouped CSV files written
    processed,          \* history: pairings whose processing returned
    raised,             \* the exception that left getAllMetricDetails, "" if none
    region_files,       \* per region folder, error_logs.csv and classified_errors.csv
    probe,              \* the string a pure function is applied to
    evaluations,        \* history: what _extract_error_signature(probe) returned
    normal_forms,       \* history: probe normalised once, twice
    probe_location,     \* <<>> until _extract_error_location(probe) returns
    redactions,         \* history: probe anonymized once, twice
    standalone,         \* history: what classify_errors.extract_error_signature(probe) returned
    analyzer,           \* one AIAnalyzer.analyze_error_patterns call: its inputs, where it stands, what it did
    main_run            \* one invocation of main.main: its configuration, where it stands, what it did

vars ==
    <<pc, log_group, log_stream, max_entries, max_iterations, fetched, requests, anonymized,
      fetch_error, error_log_rows, next_token, iteration_count, error_logs_csv,
      reader_pos, error_signatures, error_examples, error_timestamps, error_details,
      sorted_errors, classified_csv, classification_warning, ai_stage, returned,
      source_endless, ai_importable, ai_files, selected_pairings, pairing_index, region_pc, metric_index,
      metric_files, processed, raised, region_files, probe, evaluations, normal_forms,
      probe_location, redactions, standalone, analyzer, main_run>>

collect_vars == <<fetched, requests, anonymized, fetch_error, error_log_rows, next_token, iteration_count>>

classify_vars ==
    <<reader_pos, error_signatures, error_examples, error_timestamps, error_details>>

output_vars == <<sorted_errors, classified_csv, classification_warning, ai_stage, ai_files>>

input_vars ==
    <<log_group, log_stream, max_entries, max_iterations, source_endless, ai_importable>>

\* getAllMetricDetails and collect_metrics_data_for_region
batch_vars ==
    <<selected_pairings, pairing_index, region_pc, metric_index, metric_files, processed,
      raised, region_files>>

\* the pure functions applied to one string
probe_vars == <<probe, evaluations, normal_forms, probe_location, redactions, standalone>>

\* AIAnalyzer.analyze_error_patterns
analyzer_vars == <<analyzer>>

\* what the actions of getAllMetricDetails leave alone besides inner_vars
\* main.main
main_vars == <<main_run>>

side_vars == <<probe_vars, analyzer_vars, main_vars>>

outer_vars == <<batch_vars, side_vars>>

\* no getAllMetricDetails in progress
NoBatch ==
    /\ selected_pairings = <<>>
    /\ pairing_index = 0
    /\ region_pc = "none"
    /\ metric_index = 0
    /\ metric_files = {}
    /\ processed = <<>>
    /\ raised = ""
    /\ region_files = <<>>

\* no string under examination
NoProbe ==
    /\ probe = ""
    /\ evaluations = <<>>
    /\ normal_forms = <<>>
    /\ probe_location = <<>>
    /\ redactions = <<>>
    /\ standalone = <<>>

\* no analyze_error_patterns call under examination
NoAnalyzer ==
    analyzer = [pc |-> "none", REQUESTS_AVAILABLE |-> FALSE, api_endpoint |-> <<>>,
                api_key |-> <<>>, classified_errors |-> <<>>, endpoint |-> "",
                posts |-> <<>>, exception |-> "", analysis |-> "", result |-> <<>>]

\* no invocation of main under examination
NoMain ==
    main_run = [pc |-> "none", sts |-> "", ENABLE_SRA |-> FALSE, ENABLE_SRM |-> FALSE,
                ENABLE_SCREENSHOTS |-> FALSE, GENERATE_PDF_REPORT |-> FALSE,
                KEEP_INDIVIDUAL_CSVS |-> FALSE, validated |-> <<>>, steps |-> <<>>,
                artifacts |-> {}, raised |-> ""]

\* the locals and files of a collect_error_logs that has not started
FreshCall ==
    /\ fetched = <<>>
    /\ requests = <<>>
    /\ anonymized = {}
    /\ fetch_error = ""
    /\ error_log_rows = <<>>
    /\ next_token = <<>>
    /\ iteration_count = 0
    /\ error_logs_csv = <<>>
    /\ reader_pos = 0
    /\ error_signatures = <<>>
    /\ error_examples = <<>>
    /\ error_timestamps = <<>>
    /\ error_details = <<>>
    /\ sorted_errors = <<>>
    /\ classified_csv = <<>>
    /\ classification_warning = ""
    /\ ai_stage = "none"
    /\ ai_files = {}
    /\ returned = <<>>

Init ==
    /\ pc = "create_client"
    /\ log_group \in LogGroups
    /\ log_stream \in LogStreams
    /\ max_entries \in EntryLimits
    /\ max_iterations \in IterationLimits
    /\ source_endless \in BOOLEAN
    /\ source_endless => EndlessExplored(log_stream, max_iterations)
    /\ ai_importable = AI_ANALYSIS_AVAILABLE
    /\ FreshCall
    /\ NoBatch
    /\ NoProbe
    /\ NoAnalyzer
    /\ NoMain

(***************************************************************************)
(* log_helper.collect_error_logs                                           *)
(***************************************************************************)
\* line 133: profile_manager.create_client, before the try block
CreateClient ==
    /\ pc = "create_client"
    /\ pc' = "fetch_initial"
    /\ UNCHANGED <<outer_vars, input_vars, collect_vars, error_logs_csv, classify_vars, output_vars, returned>>

\* an exception of create_client leaves collect_error_logs
CreateClientRaises ==
    /\ pc = "create_client"
    /\ pc' = "propagated"
    /\ UNCHANGED <<outer_vars, input_vars, collect_vars, error_logs_csv, classify_vars, output_vars, returned>>

\* the pages filter_log_events may answer with when `from` events of the
\* stream have been delivered: at most MaxPageLen events, at least one while
\* events remain, and a nextToken whenever events remain after the page
FiniteResponses(from) ==
    {[events |-> SubSeq(log_stream, from + 1, from + n),
      nextToken |-> IF more THEN <<from + n>> ELSE <<>>] :
        n \in {c \in 0..MaxPageLen :
                  /\ from + c <= Len(log_stream)
                  /\ from < Len(log_stream) => c >= 1},
        more \in {b \in BOOLEAN : from >= Len(log_stream) => ~b}}
        \ {r \in [events : {<<>>}, nextToken : {<<Len(log_stream)>>}] : from < Len(log_stream)}

\* the pages of a source that never stops handing out a nextToken: any
\* page of at most MaxPageLen events, an empty one included, with a token
EndlessResponses(from) ==
    {[events |-> SubSeq(log_stream, from + 1, from + n), nextToken |-> <<from + n>>] :
        n \in {c \in 0..MaxPageLen : from + c <= Len(log_stream)}}

Responses(from) ==
    IF source_endless THEN EndlessResponses(from) ELSE FiniteResponses(from)

\* a fetch_log_events that never passes the token on: rejected by
\* C26_PagesInOrder
RequestWithoutToken(token) == <<>>

\* fetch_log_events line 82-84: the nextToken of the request, <<>> for none
RequestToken(token) == token

\* how many events precede the page a request is answered with: none
\* without a token, and as many as the token stands for
PageStart(sent) == IF sent = <<>> THEN 0 ELSE sent[1]

\* error_log_rows.extend(process_log_events(response.get('events', [])));
\* next_token = response.get('nextToken'); iteration_count += 1
Accept(sent, response) ==
    /\ error_log_rows' = error_log_rows \o process_log_events(response.events)
    /\ next_token' = response.nextToken
    /\ iteration_count' = iteration_count + 1
    /\ fetched' = fetched \o response.events
    /\ requests' = Append(requests, [sent |-> sent, events |-> response.events,
                                     returned |-> response.nextToken])
    /\ anonymized' =
          anonymized \cup
             (IF ANONYMIZE_LOGS
              THEN LET rows == process_log_events(response.events)
                   IN  {rows[j].log_message : j \in 1..Len(rows)}
              ELSE {})

\* line 141-144: the initial request
FetchInitial ==
    /\ pc = "fetch_initial"
    /\ \E response \in Responses(PageStart(RequestToken(<<>>))) :
          Accept(RequestToken(<<>>), response)
    /\ pc' = "paginate"
    /\ UNCHANGED <<outer_vars, input_vars, fetch_error, error_logs_csv, classify_vars, output_vars, returned>>

\* a pagination loop without the cap on round-trips: rejected by
\* C14_TerminatesWithinCaps
LoopConditionWithoutIterationCap ==
    /\ next_token # <<>>
    /\ Len(error_log_rows) < max_entries

\* line 147-149: the condition of the pagination loop
LoopCondition ==
    /\ next_token # <<>>
    /\ Len(error_log_rows) < max_entries
    /\ iteration_count < max_iterations

\* line 151-154: one round of the pagination loop
FetchNext ==
    /\ pc = "paginate"
    /\ LoopCondition
    /\ \E response \in Responses(PageStart(RequestToken(next_token))) :
          Accept(RequestToken(next_token), response)
    /\ pc' = "paginate"
    /\ UNCHANGED <<outer_vars, input_vars, fetch_error, error_logs_csv, classify_vars, output_vars, returned>>

\* line 160: the loop has ended
ExitLoop ==
    /\ pc = "paginate"
    /\ ~LoopCondition
    /\ pc' = "save"
    /\ UNCHANGED <<outer_vars, input_vars, collect_vars, error_logs_csv, classify_vars, output_vars, returned>>

\* a fetch exception no handler catches: rejected by C9_FetchFailureIsClassified
FetchRaisesUnhandled ==
    /\ IF pc = "paginate" THEN LoopCondition ELSE pc = "fetch_initial"
    /\ \E e \in FetchErrors : fetch_error' = e
    /\ pc' = "propagated"
    /\ UNCHANGED <<outer_vars, input_vars, fetched, requests, anonymized, error_log_rows, next_token,
                   iteration_count, error_logs_csv, classify_vars, output_vars, returned>>

\* line 162-167: a fetch (the initial one or a later page) raises e; the
\* handler appends the row that records it
FetchRaises ==
    /\ IF pc = "paginate" THEN LoopCondition ELSE pc = "fetch_initial"
    /\ \E e \in FetchErrors, now \in NowValues :
          /\ error_log_rows' = Append(error_log_rows, SyntheticRow(log_group, e, now))
          /\ fetch_error' = e
    /\ pc' = "save"
    /\ UNCHANGED <<outer_vars, input_vars, fetched, requests, anonymized, next_token, iteration_count,
                   error_logs_csv, classify_vars, output_vars, returned>>

(***************************************************************************)
(* csv_helper.save_error_logs and classify_and_save_errors                 *)
(***************************************************************************)
\* a classify_and_save_errors whose accumulators outlive the call: rejected
\* by C15_NoCrossRunState
SaveErrorLogsKeepingAccumulators ==
    /\ pc = "save"
    /\ error_logs_csv' =
          <<CsvRecord(ErrorLogsHeader)>>
             \o [j \in 1..Len(error_log_rows) |->
                    CsvRecord(<<error_log_rows[j].timestamp, error_log_rows[j].log_message>>)]
    /\ reader_pos' = 1
    /\ pc' = "classify"
    /\ UNCHANGED <<outer_vars, input_vars, collect_vars, output_vars, returned,
                   error_signatures, error_examples, error_timestamps, error_details>>

\* save_error_logs line 72-77: error_logs.csv is written; line 81 enters
\* classify_and_save_errors, whose accumulators start empty (line 93-96)
SaveErrorLogs ==
    /\ pc = "save"
    /\ error_logs_csv' =
          <<CsvRecord(ErrorLogsHeader)>>
             \o [j \in 1..Len(error_log_rows) |->
                    CsvRecord(<<error_log_rows[j].timestamp, error_log_rows[j].log_message>>)]
    /\ reader_pos' = 1
    /\ error_signatures' = <<>>
    /\ error_examples' = <<>>
    /\ error_timestamps' = <<>>
    /\ error_details' = <<>>
    /\ pc' = "classify"
    /\ UNCHANGED <<outer_vars, input_vars, collect_vars, output_vars, returned>>

\* the records error_logs.csv can hold, read once and looked up afterwards
ErrorLogRecords ==
    {CsvRecord(ErrorLogsHeader)}
        \cup {CsvRecord(<<entry[2][1].timestamp, entry[2][1].log_message>>) :
                 entry \in {t \in EventRowsTable : Len(t[2]) > 0}}
        \cup {CsvRecord(<<SyntheticRow(group, e, now).timestamp,
                          SyntheticRow(group, e, now).log_message>>) :
                 group \in KnownLogGroups, e \in FetchErrors, now \in NowValues}

ParsedRecordTable == {<<line, ParseCsvRecord(line)>> : line \in ErrorLogRecords}

ParsedRecord(line) ==
    IF line \in ErrorLogRecords THEN Tabulated(ParsedRecordTable, line)
    ELSE ParseCsvRecord(line)

\* the DictReader row of record number n of error_logs.csv
ReadRow(n) ==
    LET fieldnames == ParsedRecord(error_logs_csv[1])
        record     == ParsedRecord(error_logs_csv[n])
    IN  [timestamp   |-> RowGet(fieldnames, record, "timestamp"),
         log_message |-> RowGet(fieldnames, record, "log_message")]

\* line 109-121: the accumulators take the row under its signature
Accumulate(row, sig) ==
    /\ error_signatures' = CounterAdd(error_signatures, sig[3])
    /\ error_examples' = StoreExample(error_examples, sig[3], row.log_message)
    /\ error_timestamps' = AppendTimestamp(error_timestamps, sig[3], row.timestamp)
    /\ error_details' =
          DictSet(error_details, sig[3],
                  [type |-> sig[1], location |-> sig[2],
                   count |-> DictGet(error_signatures, sig[3], 0) + 1])

\* line 102-121: the loop body; a row without log_message is skipped
ClassifyOne(row) ==
    IF row.log_message = ""
    THEN UNCHANGED <<error_signatures, error_examples, error_timestamps, error_details>>
    ELSE Accumulate(row, Signature(row.log_message))

\* line 101-121: one round of `for row in reader`
ClassifyRow ==
    /\ pc = "classify"
    /\ reader_pos < Len(error_logs_csv)
    /\ reader_pos' = reader_pos + 1
    /\ ClassifyOne(ReadRow(reader_pos + 1))
    /\ pc' = "classify"
    /\ UNCHANGED <<outer_vars, input_vars, collect_vars, error_logs_csv, output_vars, returned>>

\* line 124-151: classified_errors.csv is written in ranked order.  With no
\* signature, line 150 formats a message from `service` and `region`, which
\* are assigned only in the AI stage below it: reading them raises
\* UnboundLocalError, which save_error_logs (line 82-83) catches and prints
\* as "Warning: Error classification failed".
WriteClassified ==
    /\ pc = "classify"
    /\ reader_pos = Len(error_logs_csv)
    /\ sorted_errors' = SortedByCount(error_signatures)
    /\ classified_csv' =
          <<CsvRecord(ClassifiedHeader)>>
             \o [j \in 1..Len(error_signatures) |->
                    LET item == SortedByCount(error_signatures)[j]
                    IN  CsvRecord(<<item.k, ItoA(item.v),
                                    DictGet(error_details, item.k, [location |-> ""]).location,
                                    DictGet(error_examples, item.k, "")>>)]
    /\ IF Len(error_signatures) = 0 /\ ~(HealthyMessageNames \subseteq LocalsBeforeAIStage)
       THEN /\ classification_warning' = "UnboundLocalError"
            /\ pc' = "return"
       ELSE /\ classification_warning' = classification_warning
            /\ pc' = "ai"
    /\ UNCHANGED <<outer_vars, input_vars, collect_vars, error_logs_csv, classify_vars, ai_stage,
                   ai_files, returned>>

\* line 22-26: the import of ai_analyzer as this tree resolves it, and as a
\* tree whose anonymizer defines anonymize_text resolves it; a single
\* collect_error_logs is explored as this tree resolves it
ImportOutcomes == {AI_ANALYSIS_AVAILABLE, TRUE}

\* what analyze_errors_with_ai does: it returns a result whose status is
\* 'success', 'error' or another one ('unavailable'), or it raises
AIOutcomes == {"success", "error", "unavailable", "raises"}

\* line 154-261: the branch of the AI stage that runs
AIBranch(enabled, available, outcome) ==
    IF enabled /\ available THEN outcome
    ELSE IF ~enabled THEN "disabled"
    ELSE "not_available"

\* line 197-199, 208-210, 218-247: the files the branch writes
AIFiles(branch) ==
    CASE branch = "error" -> {"ai_analysis_error.json"}
      [] branch = "success" ->
            {"ai_analysis.json", "ai_analysis_summary.md", "ai_analysis.txt"}
      [] branch = "unavailable" -> {"ai_analysis.json"}
      [] OTHER -> {}

\* an AI stage without the handler of line 252: rejected by
\* C12_TablePersistedBeforeAI
AIStageUnguarded ==
    /\ pc = "ai"
    /\ \E ENABLE_AI_ANALYSIS \in BOOLEAN, outcome \in AIOutcomes :
          /\ ai_stage' = AIBranch(ENABLE_AI_ANALYSIS, ai_importable, outcome)
          /\ ai_files' = AIFiles(AIBranch(ENABLE_AI_ANALYSIS, ai_importable, outcome))
          /\ classification_warning' =
                IF AIBranch(ENABLE_AI_ANALYSIS, ai_importable, outcome) = "raises"
                THEN "AIException" ELSE classification_warning
    /\ pc' = "return"
    /\ UNCHANGED <<outer_vars, input_vars, collect_vars, error_logs_csv, classify_vars,
                   sorted_errors, classified_csv, returned>>

\* line 154-261: the AI stage; ENABLE_AI_ANALYSIS is read from the
\* configuration.  An exception of the call or of the writes is caught and
\* printed (line 252-257); an 'error' status returns at line 205.
AIStage ==
    /\ pc = "ai"
    /\ \E ENABLE_AI_ANALYSIS \in BOOLEAN, outcome \in AIOutcomes :
          /\ ai_stage' = AIBranch(ENABLE_AI_ANALYSIS, ai_importable, outcome)
          /\ ai_files' = AIFiles(AIBranch(ENABLE_AI_ANALYSIS, ai_importable, outcome))
    /\ pc' = "return"
    /\ UNCHANGED <<outer_vars, input_vars, collect_vars, error_logs_csv, classify_vars,
                   sorted_errors, classified_csv, classification_warning, returned>>

\* log_helper line 171: return len(error_log_rows)
Return ==
    /\ pc = "return"
    /\ returned' = <<Len(error_log_rows)>>
    /\ pc' = "done"
    /\ UNCHANGED <<outer_vars, input_vars, collect_vars, error_logs_csv, classify_vars, output_vars>>

Next ==
    \/ CreateClient
    \/ CreateClientRaises
    \/ FetchInitial
    \/ FetchNext
    \/ ExitLoop
    \/ FetchRaises
    \/ SaveErrorLogs
    \/ ClassifyRow
    \/ WriteClassified
    \/ AIStage
    \/ Return

Spec == Init /\ [][Next]_vars

\* a statement of collect_error_logs is left to run: ENABLED <<Next>>_vars
Running == pc \notin {"done", "propagated"}

\* collect_error_logs is sequential code on one thread: a statement that can
\* run does run.  This is WF_vars(Next) by its definition, with
\* ENABLED <<Next>>_vars written as the state predicate Running.
Fairness == []<>(~Running) \/ []<><<Next>>_vars

FairSpec == Spec /\ Fairness

(***************************************************************************)
(* What a run has read and produced, as the properties below refer to it   *)
(***************************************************************************)
\* the rows `for row in reader` has yielded so far
RowsRead ==
    [j \in 1..(IF reader_pos = 0 THEN 0 ELSE reader_pos - 1) |-> ReadRow(j + 1)]

SignatureOf(msg) == Signature(msg)[3]

\* per row read, the signature it was counted under: {} for a row without
\* log_message, which is skipped
ReadSignatures ==
    LET rows == RowsRead
    IN  [j \in 1..Len(rows) |->
            IF rows[j].log_message = "" THEN {} ELSE {SignatureOf(rows[j].log_message)}]

SignaturesIn(sigs) == UNION {sigs[j] : j \in 1..Len(sigs)}

\* how many rows map to the signature, and the first of them
OccurrencesIn(sigs, signature) == Cardinality({j \in 1..Len(sigs) : signature \in sigs[j]})

FirstIn(sigs, signature) == MinOf({j \in 1..Len(sigs) : signature \in sigs[j]})

RECURSIVE SumValues(_)
SumValues(d) == IF Len(d) = 0 THEN 0 ELSE Head(d).v + SumValues(Tail(d))

\* the data records of classified_errors.csv as a reader returns them
ClassifiedRecords ==
    [j \in 1..(Len(classified_csv) - 1) |-> ParseCsvRecord(classified_csv[j + 1])]

\* classification has gone through all rows
Classified == pc \in {"ai", "return", "done"}

\* the fetch that failed, if any, left its row last
CollectedRows ==
    IF fetch_error = "" THEN error_log_rows
    ELSE SubSeq(error_log_rows, 1, Len(error_log_rows) - 1)

(***************************************************************************)
(* Properties                                                              *)
(***************************************************************************)
\* C1: after any number of rows read, every signature of the accumulator has
\* a count of at least 1 that equals the number of rows with a non-empty
\* log_message whose extracted signature it is; so the counts sum to the
\* number of non-empty rows read.
C1_CountsMatchRows ==
    LET sigs == ReadSignatures
    IN  /\ \A j \in 1..Len(error_signatures) :
              /\ error_signatures[j].v >= 1
              /\ error_signatures[j].v = OccurrencesIn(sigs, error_signatures[j].k)
        /\ \A j, h \in 1..Len(error_signatures) :
              error_signatures[j].k = error_signatures[h].k => j = h
        /\ SumValues(error_signatures) = Cardinality({j \in 1..Len(sigs) : sigs[j] # {}})

\* three rows read, two of them under one signature
C1_Witness ==
    /\ pc = "done"
    /\ Len(error_signatures) = 2
    /\ SumValues(error_signatures) = 3
    /\ reader_pos = 4

\* C2: for every signature the stored sample is the whole cleaned message of
\* the first row, in input order, that mapped to the signature, whatever
\* rows of the same signature follow; classified_errors.csv carries that
\* sample.
C2_SampleIsFirstMessage ==
    LET sigs == ReadSignatures
        recs == ClassifiedRecords
    IN  /\ DictKeys(error_examples) = SignaturesIn(sigs)
        /\ \A j \in 1..Len(error_examples) :
              error_examples[j].v = error_log_rows[FirstIn(sigs, error_examples[j].k)].log_message
        /\ pc = "done" =>
              \A j \in 1..Len(recs) :
                  /\ recs[j][1] \in SignaturesIn(sigs)
                  /\ recs[j][4] = error_log_rows[FirstIn(sigs, recs[j][1])].log_message

\* a signature with a later row whose message is not the first one's
C2_Witness ==
    /\ pc = "done"
    /\ \E j \in 1..Len(error_examples), h \in 1..Len(error_log_rows) :
          /\ SignatureOf(error_log_rows[h].log_message) = error_examples[j].k
          /\ error_log_rows[h].log_message # error_examples[j].v

\* C3: when the run is over, classified_errors.csv has exactly one row per
\* distinct signature, the rows are in descending order of occurrence count,
\* and of two signatures of equal count the one first encountered in the
\* input comes first.
C3_RankedOnePerSignature ==
    LET sigs == ReadSignatures
        recs == ClassifiedRecords
    IN  pc = "done" =>
            /\ {recs[j][1] : j \in 1..Len(recs)} = SignaturesIn(sigs)
            /\ Len(recs) = Cardinality(SignaturesIn(sigs))
            /\ \A j \in 1..Len(recs) : recs[j][2] = ItoA(OccurrencesIn(sigs, recs[j][1]))
            /\ \A j \in 1..(Len(recs) - 1) :
                  \/ OccurrencesIn(sigs, recs[j][1]) > OccurrencesIn(sigs, recs[j + 1][1])
                  \/ /\ OccurrencesIn(sigs, recs[j][1]) = OccurrencesIn(sigs, recs[j + 1][1])
                     /\ FirstIn(sigs, recs[j][1]) < FirstIn(sigs, recs[j + 1][1])

\* counts 1, 2, 1 in the order of first encounter: the file holds 2, 1, 1
C3_Witness ==
    /\ pc = "done"
    /\ Len(error_signatures) = 3
    /\ error_signatures[1].v = 1
    /\ error_signatures[2].v = 2
    /\ error_signatures[3].v = 1
    /\ Len(classified_csv) = 4
    /\ ParseCsvRecord(classified_csv[2])[2] = "2"

\* C4: two events whose raw messages are the same but for the value of a
\* UUID, of an ISO timestamp and of a 5-digit numeric id end up, once both
\* are fetched and classified, as exactly one record of occurrence count 2.
C4_DynamicValuesCollapse ==
    (pc = "done" /\ log_stream \in DedupStreams /\ fetched = log_stream /\ fetch_error = "") =>
        /\ Len(error_signatures) = 1
        /\ error_signatures[1].v = 2

\* C5: two events whose raw messages differ in the exception type name only
\* end up as two distinct signatures, so two records of occurrence count 1
\* each, whether the exception message is informative or generic.
C5_TypesStayApart ==
    (pc = "done" /\ log_stream \in TypeStreams /\ fetched = log_stream /\ fetch_error = "") =>
        /\ Len(error_signatures) = 2
        /\ error_signatures[1].v = 1
        /\ error_signatures[2].v = 1

\* C6: two events of the shape
\* 'ERROR <dotted.class.Path>] <text> id=<digits> tenant=[<token+digits>]'
\* that differ in the id and the tenant token only end up as one record of
\* occurrence count 2, of location "Foo" (the last segment of the class
\* path) and of error type "ERROR".
C6_EndToEndRecord ==
    (pc = "done" /\ log_stream \in EndToEndStreams /\ fetched = log_stream /\ fetch_error = "") =>
        /\ Len(error_signatures) = 1
        /\ error_signatures[1].v = 2
        /\ Len(error_details) = 1
        /\ error_details[1].v.location = "Foo"
        /\ error_details[1].v.type = "ERROR"

\* the events the claim C7 lets through: the raw message is not blank, does
\* not contain 'NotificationDispatcherImpl', and is not empty once cleaned
SurvivingEvents ==
    {event \in AllEvents :
        /\ Strip(event.message) # ""
        /\ ~Contains(event.message, "NotificationDispatcherImpl")
        /\ clean_log_message(event.message) # ""}

\* the row of a surviving event
SurvivorRow ==
    [event \in SurvivingEvents |->
        [timestamp   |-> IsoFormat(event.sec, event.ms * 1000),
         log_message |-> anonymize_log_message(clean_log_message(event.message))]]

\* C7: the rows collected are, in the order of the events fetched, the rows
\* of exactly those events whose raw message is non-blank, does not contain
\* 'NotificationDispatcherImpl' and is non-empty after cleaning; the other
\* events add no row to error_logs.csv and no occurrence to any record.
C7_RowsAreSurvivingEvents ==
    LET survivors == SelectSeq(fetched, LAMBDA event : event \in SurvivingEvents)
        collected == CollectedRows
    IN  /\ Len(collected) = Len(survivors)
        /\ \A j \in 1..Len(survivors) : collected[j] = SurvivorRow[survivors[j]]
        /\ error_logs_csv # <<>> => Len(error_logs_csv) = 1 + Len(error_log_rows)
        /\ Classified => SumValues(error_signatures) = Len(error_log_rows)

\* an excluded event and an event that cleans to nothing between two that
\* survive
C7_Witness ==
    /\ pc = "done"
    /\ fetched = <<TIMEOUT, DISPATCH, NOISE, NPE1>>
    /\ fetch_error = ""
    /\ Len(error_log_rows) = 2
    /\ SumValues(error_signatures) = 2

\* the messages the anonymizer leaves as they are
AnonymizerFixpoints == {msg \in RowMessages : anonymize_log_message(msg) = msg}

\* C8: every log_message handed to save_error_logs is an output of
\* anonymize_log_message, whatever the fetches did, a raise included.
C8_SavedMessagesAnonymized ==
    pc \in {"save", "classify", "ai", "return", "done"} =>
        \A j \in 1..Len(error_log_rows) :
            \/ error_log_rows[j].log_message \in anonymized
            \/ error_log_rows[j].log_message \in AnonymizerFixpoints

\* the message of the row that records the failed fetch
FailureMessage == "Log fetch error from " \o log_group \o ": " \o fetch_error

\* C9, with the count as the code gives it: a fetch that raises, the first
\* or a later one, is not propagated; one row recording the failure is
\* appended after the rows collected; the rows are saved and classified as
\* usual, and the failure is counted under its signature, once more than the
\* collected rows of that signature.
C9_FetchFailureIsClassified ==
    fetch_error # "" =>
        /\ pc \in {"save", "classify", "ai", "return", "done"}
        /\ Len(error_log_rows) >= 1
        /\ error_log_rows[Len(error_log_rows)].log_message = FailureMessage
        /\ CollectedRows = process_log_events(fetched)
        /\ pc = "done" =>
              /\ Len(error_logs_csv) = 1 + Len(error_log_rows)
              /\ Len(classified_csv) = 1 + Len(error_signatures)
              /\ classification_warning = ""
              /\ returned = <<Len(error_log_rows)>>
              /\ DictGet(error_signatures, SignatureOf(FailureMessage), 0)
                    = 1 + Cardinality({j \in 1..Len(CollectedRows) :
                                          SignatureOf(CollectedRows[j].log_message)
                                              = SignatureOf(FailureMessage)})

\* a later page raises after a row of the same signature was collected
C9_Witness ==
    /\ pc = "done"
    /\ fetch_error # ""
    /\ Len(error_log_rows) = 2
    /\ DictGet(error_signatures, SignatureOf(FailureMessage), 0) = 2

\* C9 as stated: the failure is a signature of its own, of occurrence count 1
C9_FailureHasOwnSignature ==
    (pc = "done" /\ fetch_error # "") =>
        /\ error_log_rows[Len(error_log_rows)].log_message = FailureMessage
        /\ DictGet(error_signatures, SignatureOf(FailureMessage), 0) = 1

\* C10: with no row to aggregate, classified_errors.csv holds its header
\* only, classify_and_save_errors does not raise, and the run goes on to the
\* stage after the no-errors report instead of a classification failure.
C10_EmptyIsHealthy ==
    (pc = "done" /\ Len(error_log_rows) = 0) =>
        /\ classified_csv = <<CsvRecord(ClassifiedHeader)>>
        /\ classification_warning = ""
        /\ ai_stage # "none"

(***************************************************************************)
(* The caps of the pagination loop                                         *)
(***************************************************************************)
\* C13 as stated: whatever the source and the page sizes, collect_error_logs
\* never holds more rows than max_entries.
C13_RowsWithinCap ==
    Len(error_log_rows) <= max_entries

\* the requests sent to the log source: the answered ones and the one that raised
RoundTrips == iteration_count + (IF fetch_error = "" THEN 0 ELSE 1)

\* the loop was left by a cap while the source still offered a nextToken
CapStoppedPaging ==
    /\ pc = "save"
    /\ fetch_error = ""
    /\ next_token # <<>>

\* error_logs.csv holds the rows collected, classified_errors.csv is
\* written, and collect_error_logs has returned their number
PartialSetSaved ==
    /\ pc = "done"
    /\ Len(error_logs_csv) = 1 + Len(error_log_rows)
    /\ \A j \in 1..Len(error_log_rows) :
          error_logs_csv[j + 1] =
             CsvRecord(<<error_log_rows[j].timestamp, error_log_rows[j].log_message>>)
    /\ Len(classified_csv) >= 1
    /\ returned = <<Len(error_log_rows)>>

\* C14: for every log source, one that hands out a nextToken forever
\* included, collect_error_logs sends at most max_iterations requests, comes
\* to an end, and after a cap has stopped the paging it saves and classifies
\* the rows collected so far and returns.
C14_TerminatesWithinCaps ==
    /\ [](max_iterations >= 1 => RoundTrips <= max_iterations)
    /\ <>(pc \in {"done", "propagated"})
    /\ (CapStoppedPaging ~> PartialSetSaved)

\* an endless source, stopped by the cap on round-trips with rows in hand
C14_Witness ==
    /\ PartialSetSaved
    /\ source_endless
    /\ next_token # <<>>
    /\ iteration_count = max_iterations
    /\ Len(error_log_rows) >= 1
    /\ Len(classified_csv) >= 2

(***************************************************************************)
(* metrics_helper.getAllMetricDetails                                      *)
(***************************************************************************)
MaxPairings == 2

\* the (service_name, region_code) a caller can select: the configured
\* ones and a region code the service has no entry for
PairingPool == {entry[1] : entry \in SERVICES_METADATA_PERF} \cup {<<"SRA", "AU">>}

\* line 185 and 196: the pairing has metadata
Configured(pairing) == \E entry \in SERVICES_METADATA_PERF : entry[1] = pairing

\* line 199: dashboard_name, aws_region, log_group = metadata[region_code]
Metadata(pairing) == CHOOSE entry \in SERVICES_METADATA_PERF : entry[1] = pairing

\* line 14-22: the titles of get_metric_types(service_name)
get_metric_types(service_name) ==
    <<service_name \o " MS Errors", "External APis Errors",
      service_name \o " performance in MS", "External APIs performance in MS",
      "Max CPU and Memory">>

\* line 148-149: region_rel_folder, with is_perf
RegionFolder(pairing) == "perf/" \o pairing[1] \o "/" \o pairing[2]

\* what the log groups of the pairings hold when they are read
BatchStreams == {<<>>, <<NPE1>>, <<TIMEOUT, NPE2>>}

\* the steps of one pairing that can raise with no handler above them
RaisingSteps == {"get_dashboard", "make_cloudwatch_client", "get_metric_data",
                 "save_metrics_group_to_csv"}

NoFiles == [error_logs |-> <<>>, classified |-> <<>>, ai_analysis |-> <<>>]

CurrentPairing == selected_pairings[pairing_index + 1]

\* the state of a getAllMetricDetails about to enter its loops
InitBatch ==
    /\ pc = "idle"
    /\ log_group = ""
    /\ log_stream = <<>>
    /\ max_entries = MAX_LOG_ENTRIES
    /\ max_iterations = MAX_LOG_ITERATIONS
    /\ source_endless = FALSE
    /\ ai_importable \in ImportOutcomes
    /\ FreshCall
    /\ selected_pairings \in UNION {[1..n -> PairingPool] : n \in 1..MaxPairings}
    /\ pairing_index = 0
    /\ region_pc = "loop"
    /\ metric_index = 0
    /\ metric_files = {}
    /\ processed = <<>>
    /\ raised = ""
    /\ region_files = <<>>
    /\ NoProbe
    /\ NoAnalyzer
    /\ NoMain

inner_vars ==
    <<pc, input_vars, collect_vars, error_logs_csv, classify_vars, output_vars, returned>>

\* line 185-187 and 196-198: a service or region without metadata is skipped
SkipPairing ==
    /\ region_pc = "loop"
    /\ pairing_index < Len(selected_pairings)
    /\ ~Configured(CurrentPairing)
    /\ pairing_index' = pairing_index + 1
    /\ UNCHANGED <<inner_vars, side_vars, selected_pairings, region_pc, metric_index,
                   metric_files, processed, raised, region_files>>

\* line 199-200 and 148-153: collect_metrics_data_for_region is entered
EnterRegion ==
    /\ region_pc = "loop"
    /\ pairing_index < Len(selected_pairings)
    /\ Configured(CurrentPairing)
    /\ region_pc' = "dashboard"
    /\ UNCHANGED <<inner_vars, side_vars, selected_pairings, pairing_index, metric_index,
                   metric_files, processed, raised, region_files>>

\* line 154-155: get_dashboard and make_cloudwatch_client return
GetDashboard ==
    /\ region_pc = "dashboard"
    /\ region_pc' = "metrics"
    /\ metric_index' = 0
    /\ UNCHANGED <<inner_vars, side_vars, selected_pairings, pairing_index, metric_files,
                   processed, raised, region_files>>

\* an exception of the named step: neither collect_metrics_data_for_region
\* nor getAllMetricDetails has a handler, so it leaves getAllMetricDetails
Propagate(step) ==
    /\ raised' = step
    /\ region_pc' = "aborted"

GetDashboardRaises ==
    /\ region_pc = "dashboard"
    /\ \E step \in {"get_dashboard", "make_cloudwatch_client"} : Propagate(step)
    /\ UNCHANGED <<inner_vars, side_vars, selected_pairings, pairing_index, metric_index,
                   metric_files, processed, region_files>>

\* line 156-158: one metric type is queried and its grouped CSV is written
SaveMetricsGroup ==
    /\ region_pc = "metrics"
    /\ metric_index < Len(get_metric_types(CurrentPairing[1]))
    /\ metric_files' =
          metric_files \cup
             {<<RegionFolder(CurrentPairing),
                get_metric_types(CurrentPairing[1])[metric_index + 1] \o ".csv">>}
    /\ metric_index' = metric_index + 1
    /\ UNCHANGED <<inner_vars, side_vars, selected_pairings, pairing_index, region_pc,
                   processed, raised, region_files>>

\* line 157-158: the query or the write of the grouped CSV raises
MetricsGroupRaises ==
    /\ region_pc = "metrics"
    /\ metric_index < Len(get_metric_types(CurrentPairing[1]))
    /\ \E step \in {"get_metric_data", "save_metrics_group_to_csv"} : Propagate(step)
    /\ UNCHANGED <<inner_vars, side_vars, selected_pairings, pairing_index, metric_index,
                   metric_files, processed, region_files>>

\* line 160: collect_error_logs is called with max_entries=10000 and
\* max_iterations=100; the files of the region folder are what an earlier
\* run left there
CollectLogs ==
    /\ region_pc = "metrics"
    /\ metric_index = Len(get_metric_types(CurrentPairing[1]))
    /\ region_pc' = "logs"
    /\ pc' = "create_client"
    /\ log_group' = Metadata(CurrentPairing)[4]
    /\ log_stream' \in BatchStreams
    /\ max_entries' = 10000
    /\ max_iterations' = 100
    /\ error_logs_csv' = DictGet(region_files, RegionFolder(CurrentPairing), NoFiles).error_logs
    /\ classified_csv' = DictGet(region_files, RegionFolder(CurrentPairing), NoFiles).classified
    /\ UNCHANGED <<source_endless, ai_importable, collect_vars, classify_vars, sorted_errors,
                   classification_warning, ai_stage, ai_files, returned, side_vars,
                   selected_pairings, pairing_index, metric_index, metric_files, processed,
                   raised, region_files>>

\* the frame of collect_error_logs is gone: what the model recorded of the
\* call is dropped.  The accumulators are left as they are: it is
\* classify_and_save_errors that binds them anew (csv_helper line 93-96).
LeaveCollect ==
    /\ pc' = "idle"
    /\ fetched' = <<>>
    /\ requests' = <<>>
    /\ anonymized' = {}
    /\ fetch_error' = ""
    /\ error_log_rows' = <<>>
    /\ next_token' = <<>>
    /\ iteration_count' = 0
    /\ error_logs_csv' = <<>>
    /\ classified_csv' = <<>>
    /\ sorted_errors' = <<>>
    /\ classification_warning' = ""
    /\ ai_stage' = "none"
    /\ ai_files' = {}
    /\ returned' = <<>>
    /\ UNCHANGED <<input_vars, classify_vars>>

\* csv_helper line 208-210: ai_analysis.json, as the run that is ending
\* leaves it in the region folder.  A stage that wrote it has replaced it
\* (open 'w'); nothing else in the run writes or removes it.
AiAnalysisJson(before) ==
    IF "ai_analysis.json" \in ai_files
    THEN <<[run |-> pairing_index + 1, status |-> ai_stage]>>
    ELSE before

\* the files the region folder holds now
FilesNow ==
    [error_logs  |-> error_logs_csv,
     classified  |-> classified_csv,
     ai_analysis |->
         AiAnalysisJson(DictGet(region_files, RegionFolder(CurrentPairing), NoFiles).ai_analysis)]

\* collect_error_logs has returned, and with it collect_metrics_data_for_region
LogsReturned ==
    /\ region_pc = "logs"
    /\ pc = "done"
    /\ LeaveCollect
    /\ region_files' = DictSet(region_files, RegionFolder(CurrentPairing), FilesNow)
    /\ processed' = Append(processed, CurrentPairing)
    /\ pairing_index' = pairing_index + 1
    /\ region_pc' = "loop"
    /\ UNCHANGED <<side_vars, selected_pairings, metric_index, metric_files, raised>>

\* log_helper line 133: the exception of create_client leaves
\* collect_error_logs and, unhandled, getAllMetricDetails
LogsRaised ==
    /\ region_pc = "logs"
    /\ pc = "propagated"
    /\ LeaveCollect
    /\ Propagate("create_client")
    /\ UNCHANGED <<side_vars, selected_pairings, pairing_index, metric_index, metric_files,
                   processed, region_files>>

\* line 182 and 195: the loops are exhausted
FinishBatch ==
    /\ region_pc = "loop"
    /\ pairing_index = Len(selected_pairings)
    /\ region_pc' = "finished"
    /\ UNCHANGED <<inner_vars, side_vars, selected_pairings, pairing_index, metric_index,
                   metric_files, processed, raised, region_files>>

NextBatch ==
    \/ SkipPairing
    \/ EnterRegion
    \/ GetDashboard
    \/ GetDashboardRaises
    \/ SaveMetricsGroup
    \/ MetricsGroupRaises
    \/ CollectLogs
    \/ CreateClient
    \/ CreateClientRaises
    \/ FetchInitial
    \/ FetchNext
    \/ ExitLoop
    \/ FetchRaises
    \/ SaveErrorLogs
    \/ ClassifyRow
    \/ WriteClassified
    \/ AIStage
    \/ Return
    \/ LogsReturned
    \/ LogsRaised
    \/ FinishBatch

BatchSpec == InitBatch /\ [][NextBatch]_vars

(***************************************************************************)
(* Pairings, the AI stage and repeated runs                                *)
(***************************************************************************)
\* getAllMetricDetails has ended, by return or by an exception
BatchEnded == region_pc \in {"finished", "aborted"}

\* the pairings the loops have reached, the one that raised included
PairingsReached == pairing_index + (IF region_pc = "aborted" THEN 1 ELSE 0)

\* C11 as stated: a failure while one pairing is processed is reported and
\* the remaining pairings are still processed, so that getAllMetricDetails
\* ends only after its loops have reached every selected pairing.
C11_PairingsIndependent ==
    BatchEnded => PairingsReached = Len(selected_pairings)

\* classified_errors.csv holds the header and one record per signature, in
\* the order of sorted_errors
TableWritten ==
    /\ Len(classified_csv) = 1 + Len(error_signatures)
    /\ Len(sorted_errors) = Len(error_signatures)
    /\ classified_csv[1] = CsvRecord(ClassifiedHeader)
    /\ \A j \in 1..Len(sorted_errors) :
          classified_csv[j + 1] =
             CsvRecord(<<sorted_errors[j].k, ItoA(sorted_errors[j].v),
                         DictGet(error_details, sorted_errors[j].k, [location |-> ""]).location,
                         DictGet(error_examples, sorted_errors[j].k, "")>>)

\* C12: classified_errors.csv is complete when the AI stage is entered, and
\* whatever the stage does (a result of status success, error or another
\* one, an exception, AI disabled, analyzer not importable) the file is
\* still complete afterwards, no exception leaves classify_and_save_errors
\* and save_error_logs returns.
C12_TablePersistedBeforeAI ==
    /\ pc = "ai" => TableWritten
    /\ ai_stage # "none" =>
          /\ TableWritten
          /\ classification_warning = ""
          /\ pc \in {"return", "done"}

\* the analyzer raised, after a table of at least one record was written
C12_Witness ==
    /\ ai_stage = "raises"
    /\ pc = "done"
    /\ Len(classified_csv) >= 2
    /\ returned = <<Len(error_log_rows)>>

\* the rows of the signature, in input order
IndicesOf(sigs, signature) == {h \in 1..Len(sigs) : signature \in sigs[h]}

TimestampsOf(rows, sigs, signature) ==
    [n \in 1..Cardinality(IndicesOf(sigs, signature)) |->
        rows[CHOOSE h \in IndicesOf(sigs, signature) :
                Cardinality({g \in IndicesOf(sigs, signature) : g <= h}) = n].timestamp]

\* the accumulators hold what the rows read in this call give, nothing else
AccumulatorsFrom(rows, sigs) ==
    /\ DictKeys(error_signatures) = SignaturesIn(sigs)
    /\ DictKeys(error_examples) = SignaturesIn(sigs)
    /\ DictKeys(error_timestamps) = SignaturesIn(sigs)
    /\ DictKeys(error_details) = SignaturesIn(sigs)
    /\ \A j \in 1..Len(error_signatures) :
          error_signatures[j].v = OccurrencesIn(sigs, error_signatures[j].k)
    /\ \A j \in 1..Len(error_examples) :
          error_examples[j].v = rows[FirstIn(sigs, error_examples[j].k)].log_message
    /\ \A j \in 1..Len(error_timestamps) :
          error_timestamps[j].v = TimestampsOf(rows, sigs, error_timestamps[j].k)
    /\ \A j \in 1..Len(error_details) :
          /\ error_details[j].v.count = OccurrencesIn(sigs, error_details[j].k)
          /\ \E h \in IndicesOf(sigs, error_details[j].k) :
                /\ error_details[j].v.type = Signature(rows[h].log_message)[1]
                /\ error_details[j].v.location = Signature(rows[h].log_message)[2]

\* region folders with the same error_logs.csv have the same
\* classified_errors.csv, the folder being written included
SameRowsSameTable ==
    /\ \A j, h \in 1..Len(region_files) :
          region_files[j].v.error_logs = region_files[h].v.error_logs
             => region_files[j].v.classified = region_files[h].v.classified
    /\ pc = "done" =>
          \A j \in 1..Len(region_files) :
              region_files[j].v.error_logs = error_logs_csv
                 => region_files[j].v.classified = classified_csv

\* C15: in a sequence of runs over different pairings, or over one pairing
\* twice, the counts, samples, timestamps and signatures of a run are those
\* of the rows it read and of no earlier run, and its table follows from
\* them: runs that read the same rows write the same table.
C15_NoCrossRunState ==
    /\ pc \in {"classify", "ai", "return", "done"} =>
          AccumulatorsFrom(RowsRead, ReadSignatures)
    /\ pc \in {"ai", "return", "done"} => TableWritten
    /\ SameRowsSameTable

\* a later run ends with a table of its own while an earlier run left a
\* signature that no row of this run has
C15_Witness ==
    /\ pc = "done"
    /\ Len(processed) >= 1
    /\ Len(error_signatures) >= 1
    /\ \E j \in 1..Len(region_files) :
          /\ Len(region_files[j].v.classified) >= 2
          /\ \E h \in 2..Len(region_files[j].v.classified) :
                ParseCsvRecord(region_files[j].v.classified[h])[1]
                    \notin DictKeys(error_signatures)

(***************************************************************************)
(* classify_errors.py: the classifier run by hand on an error_logs.csv.    *)
(* extract_error_location (line 98-122) is _extract_error_location of      *)
(* csv_helper line for line.                                               *)
(***************************************************************************)
\* line 21: r'(java\.lang\.\w+Exception|com\.nice\.saas\.\S+Exception|\w+Exception):\s*(.+?)(?:\n|$)'
standalone_exception_pattern ==
    Cat(<<Grp(1, Alt(<<Cat(<<Lit("java.lang."), Plus(RE_w), Lit("Exception")>>),
                       Cat(<<Lit("com.nice.saas."), Plus(RE_S), Lit("Exception")>>),
                       Cat(<<Plus(RE_w), Lit("Exception")>>)>>)),
          Lit(":"), Star(RE_s), Grp(2, Lazy(Dot, 1, Inf)), LineEnd>>)

\* line 64: r'\b[0-9a-f]{12,}\b'
LongHexIdPattern == Cat(<<WordB, Rep(Hex, 12, Inf), WordB>>)

\* line 60-91
standalone_normalize_rules ==
    <<RuleI(UuidPattern, <<T("[UUID]")>>),
      Rule(HexIdPattern, <<T("[HEX-ID]")>>),
      Rule(LongHexIdPattern, <<T("[HEX-ID]")>>),
      Rule(TimestampPattern, <<T("[TIMESTAMP]")>>),
      Rule(TimePattern, <<T("[TIME]")>>),
      Rule(QuotedIdPattern, <<T("'[ID]'")>>),
      Rule(TenantTokenPattern, <<T("[TENANT]")>>),
      Rule(WrapperPattern("BaseSCRRequest"), <<T("BaseSCRRequest{...}")>>),
      Rule(WrapperPattern("RequestedChanges"), <<T("RequestedChanges{...}")>>),
      Rule(WrapperPattern("ActivityChange"), <<T("ActivityChange{...}")>>),
      Rule(LongBracketPattern, <<T("[...]")>>),
      Rule(NumberPattern, <<T("[NUM]")>>)>>

\* line 55-96
normalize_error_message(message) ==
    CollapseWhitespace(ApplyRules(standalone_normalize_rules, message))

\* line 98-122
extract_error_location(log_message) == _extract_error_location(log_message)

\* line 24-53: the branches, on the match of line 22
StandaloneBranches(log_message, exception_match) ==
    IF exception_match.b # 0
    THEN <<LastSegment(Group(log_message, exception_match, 1), "."),
           extract_error_location(log_message),
           LastSegment(Group(log_message, exception_match, 1), ".") \o ": "
              \o normalize_error_message(Strip(Group(log_message, exception_match, 2)))>>
    ELSE IF Search(error_pattern, log_message).b # 0
    THEN <<"ERROR",
           LastSegment(Group(log_message, Search(error_pattern, log_message), 1), "."),
           "ERROR in "
              \o LastSegment(Group(log_message, Search(error_pattern, log_message), 1), ".")
              \o ": "
              \o normalize_error_message(
                     Strip(Group(log_message, Search(error_pattern, log_message), 2)))>>
    ELSE <<"Unknown", "Unknown",
           normalize_error_message(Prefix(FirstSegment(log_message, "\n"), FirstLineLimit))>>

\* line 12-53
extract_error_signature(log_message) ==
    IF log_message = "" \/ Strip(log_message) = ""
    THEN <<"Unknown", "Unknown", "Empty log message">>
    ELSE StandaloneBranches(log_message, Search(standalone_exception_pattern, log_message))

(***************************************************************************)
(* The pure functions of csv_helper applied to one string                  *)
(***************************************************************************)
MaxEvaluations == 2

MaxApplications == 2

\* a bracket block one character short of the 50 of r'\[[^\]]{50,}\]'
\* that holds a number of three digits
NearLongBlock == "[xxxxxxxxxxxxxxxxxxxxxxxxxxxxxxxxxxxxxxxxxxxxx 123]"

MarkerLine == "ERROR com.nice.saas.wfo.svc.OrderService [main] Call failed"

\* an ERROR-marker line followed by an exception line
BothMatch == MarkerLine \o "\njava.lang.IllegalStateException: bad state 12345"

ProbeStrings ==
    {"",
     " \n\t",
     "\nWARN cache miss",
     "WARN cache miss for key 12345\nsecond line",
     MarkerLine,
     "ERROR com.nice.saas.wfo.svc.OrderService [main] Request 12345 failed",
     BothMatch,
     MarkerLine \o " id=12345\ncom.nice.saas.wfo.ServiceCallException: {}",
     MarkerLine \o "\nServiceCallException:\n\tat com.nice.saas.wfo.svc.OrderService.call(OrderService.java:42)",
     MarkerLine \o "\nServiceCallException:\n\tat java.util.ArrayList.get(ArrayList.java:42)",
     MarkerLine \o "\nServiceCallException: unknown",
     MarkerLine \o "\nServiceCallException:   ",
     "ServiceCallException: n/a",
     MarkerLine \o "\n\tat com.nice.saas.wfo.svc.OrderService$Worker.run(OrderService.java:42)\n\tat com.nice.saas.wfo.svc.Pool.submit(Pool.java:7)",
     MarkerLine \o "\n\tat com.nice.saas.wfo.svc.Pool.submit(Pool.java:7)",
     "\tat com.nice.saas.wfo.Main.start(Main.java:1)",
     "ERROR org.other.Thing [main] Call failed\n\tat org.other.Thing.run(Thing.java:1)",
     NearLongBlock}

\* the example of section 8 of the specification
RedactionExample ==
    "userName='John Doe' contacted john.doe@example.com re: tenant=acme_corp123"

\* the same three fields, with the user's name in the text before them
NameOutsideField ==
    "Update by John Doe: userName='John Doe' mail john.doe@example.com tenant=acme_corp123"

\* the same three fields, with a suffix glued to the address
AddressWithSuffix ==
    "userName='John Doe' mail john.doe@example.com_old tenant=acme_corp123"

\* the strings anonymize_log_message is applied to
RedactionStrings ==
    {"",
     RedactionExample,
     NameOutsideField,
     AddressWithSuffix,
     "customer=acme failed",
     "tenant=acme failed",
     "[user: bob] failed",
     "call 555-123-4567 now",
     "GET /tenants/acme/x",
     "[acme_corp12345] x",
     "Seen John Doe, at desk"}

RedactionTable ==
    {<<str, [once  |-> anonymize_log_message(str),
             twice |-> anonymize_log_message(anonymize_log_message(str))]>> :
        str \in RedactionStrings}

\* the n-th application of anonymize_log_message, to the result of the one
\* before
Redacted(str, n) ==
    IF n = 1 THEN Tabulated(RedactionTable, str).once
    ELSE IF n = 2 THEN Tabulated(RedactionTable, str).twice
    ELSE anonymize_log_message(Tabulated(RedactionTable, str).twice)

\* the functions on the strings examined, computed once and looked up
ProbeTable ==
    {<<str, [signature  |-> _extract_error_signature(str),
             location   |-> _extract_error_location(str),
             normalized |-> _normalize_error_message(str),
             renormalized |->
                 _normalize_error_message(_normalize_error_message(str))]>> :
        str \in ProbeStrings}

\* an exception of a package beside wfo, of a nested class, with a
\* lower-case hexadecimal id of 12 characters in its message
ClassifierStrings ==
    {"com.nice.saas.core.Outer$InnerException: request deadbeefcafe failed"}

\* the exception message is one csv_helper treats as generic
GenericMessage(str) ==
    /\ Search(exception_pattern, str).b # 0
    /\ IsGeneric(_normalize_error_message(Strip(Group(str, Search(exception_pattern, str), 2))))

\* both classifiers on the strings examined, computed once and looked up
ClassifierTable ==
    {<<str, [standalone |-> extract_error_signature(str),
             pipeline   |-> IF str \in ProbeStrings THEN Tabulated(ProbeTable, str).signature
                             ELSE _extract_error_signature(str),
             generic    |-> GenericMessage(str)]>> :
        str \in ProbeStrings \cup ClassifierStrings}

\* a call that returns what an earlier call returned, adorned: rejected by
\* C19_Deterministic
EvaluateRemembering(str, earlier) ==
    IF earlier = <<>> THEN Tabulated(ProbeTable, str).signature
    ELSE [earlier[1] EXCEPT ![3] = @ \o " (again)"]

\* _extract_error_signature(str) after the calls that returned `earlier`:
\* the function reads its argument and nothing else
Evaluate(str, earlier) ==
    Tabulated(ProbeTable, str).signature

\* the n-th application of _normalize_error_message, to the result of the
\* one before
Normalized(str, n) ==
    IF n = 1 THEN Tabulated(ProbeTable, str).normalized
    ELSE IF n = 2 THEN Tabulated(ProbeTable, str).renormalized
    ELSE _normalize_error_message(Tabulated(ProbeTable, str).renormalized)

InitProbe ==
    /\ pc = "idle"
    /\ log_group = ""
    /\ log_stream = <<>>
    /\ max_entries = MAX_LOG_ENTRIES
    /\ max_iterations = MAX_LOG_ITERATIONS
    /\ source_endless = FALSE
    /\ ai_importable = AI_ANALYSIS_AVAILABLE
    /\ FreshCall
    /\ NoBatch
    /\ probe \in ProbeStrings \cup RedactionStrings \cup ClassifierStrings
    /\ evaluations = <<>>
    /\ normal_forms = <<>>
    /\ probe_location = <<>>
    /\ redactions = <<>>
    /\ standalone = <<>>
    /\ NoAnalyzer
    /\ NoMain

\* one call of _extract_error_signature(probe)
ExtractSignature ==
    /\ probe \in ProbeStrings
    /\ Len(evaluations) < MaxEvaluations
    /\ evaluations' = Append(evaluations, Evaluate(probe, evaluations))
    /\ UNCHANGED <<inner_vars, batch_vars, analyzer_vars, main_vars, probe, normal_forms, probe_location, redactions,
                   standalone>>

\* one more application of _normalize_error_message
NormalizeAgain ==
    /\ probe \in ProbeStrings
    /\ Len(normal_forms) < MaxApplications
    /\ normal_forms' = Append(normal_forms, Normalized(probe, Len(normal_forms) + 1))
    /\ UNCHANGED <<inner_vars, batch_vars, analyzer_vars, main_vars, probe, evaluations, probe_location, redactions,
                   standalone>>

\* the call of _extract_error_location(probe)
ExtractLocation ==
    /\ probe \in ProbeStrings
    /\ probe_location = <<>>
    /\ probe_location' = <<Tabulated(ProbeTable, probe).location>>
    /\ UNCHANGED <<inner_vars, batch_vars, analyzer_vars, main_vars, probe, evaluations, normal_forms, redactions,
                   standalone>>

\* one more application of anonymize_log_message
AnonymizeAgain ==
    /\ probe \in RedactionStrings
    /\ Len(redactions) < MaxApplications
    /\ redactions' = Append(redactions, Redacted(probe, Len(redactions) + 1))
    /\ UNCHANGED <<inner_vars, batch_vars, analyzer_vars, main_vars, probe, evaluations, normal_forms,
                   probe_location, standalone>>

\* one call of classify_errors.extract_error_signature(probe)
ExtractStandalone ==
    /\ probe \in ProbeStrings \cup ClassifierStrings
    /\ Len(standalone) < MaxEvaluations
    /\ standalone' = Append(standalone, Tabulated(ClassifierTable, probe).standalone)
    /\ UNCHANGED <<inner_vars, batch_vars, analyzer_vars, main_vars, probe, evaluations, normal_forms,
                   probe_location, redactions>>

NextProbe ==
    \/ ExtractSignature
    \/ NormalizeAgain
    \/ ExtractLocation
    \/ AnonymizeAgain
    \/ ExtractStandalone

ProbeSpec == InitProbe /\ [][NextProbe]_vars

(***************************************************************************)
(* C16                                                                     *)
(***************************************************************************)
\* the number of the first rule of section 4.2 that applies to str:
\* 1 empty or whitespace, 2 exception pattern, 3 ERROR-marker pattern,
\* 4 first-line fallback
FirstApplicableRule(str) ==
    IF Strip(str) = "" THEN 1
    ELSE IF Search(exception_pattern, str).b # 0 THEN 2
    ELSE IF Search(error_pattern, str).b # 0 THEN 3
    ELSE 4

\* the last dotted segment of the exception named by the first exception match
MatchedExceptionType(str) ==
    IF Search(exception_pattern, str).b # 0
    THEN LastSegment(Group(str, Search(exception_pattern, str), 1), ".")
    ELSE ""

RuleTable ==
    {<<str, [rule |-> FirstApplicableRule(str),
             exception_type |-> MatchedExceptionType(str),
             marker |-> Search(error_pattern, str).b # 0,
             first_line |-> _normalize_error_message(
                                Prefix(FirstSegment(str, "\n"), FirstLineLimit))]>> :
        str \in ProbeStrings}

\* what rule `rule` makes of the triple
ChosenBy(triple, rule, exception_type, first_line) ==
    CASE rule = 1 -> triple = <<"Unknown", "Unknown", "Empty log message">>
      [] rule = 2 -> triple[1] = exception_type /\ triple[1] # "ERROR"
      [] rule = 3 -> triple[1] = "ERROR" /\ StartsWith(triple[3], "ERROR in " \o triple[2] \o ": ")
      [] rule = 4 -> triple = <<"Unknown", "Unknown", first_line>>

\* C16: every call of _extract_error_signature returns a triple, and the
\* triple is the one made by the first rule that applies in the order empty,
\* exception pattern, ERROR-marker pattern, first-line fallback; a message
\* with both an exception match and an ERROR marker is typed by the exception
C16_FirstMatchWins ==
    \A i \in 1..Len(evaluations) :
        /\ Len(evaluations[i]) = 3
        /\ ChosenBy(evaluations[i],
                    Tabulated(RuleTable, probe).rule,
                    Tabulated(RuleTable, probe).exception_type,
                    Tabulated(RuleTable, probe).first_line)

\* a message with an ERROR-marker line and an exception line has been
\* evaluated and is typed by the exception
C16_Witness ==
    /\ probe = BothMatch
    /\ Tabulated(RuleTable, probe).marker
    /\ Tabulated(RuleTable, probe).rule = 2
    /\ evaluations # <<>>
    /\ evaluations[1][1] = "IllegalStateException"

(***************************************************************************)
(* C17                                                                     *)
(***************************************************************************)
\* 'at <dotted-path>': the head of a stack-trace line
FramePrefix ==
    Cat(<<Lit("at "), Plus(RE_w), Plus(Cat(<<Lit("."), Plus(RE_w)>>))>>)

\* the uninformative exception messages of section 4.2: empty, the
\* placeholder '{}', or a text that starts with a stack-trace line
StatedGeneric(text) ==
    \/ text = ""
    \/ text = "{}"
    \/ Search(FramePrefix, text).b = 1

\* the parts of the exception branch, line 305-330
ExceptionParts(str, match) ==
    [matched |-> match.b # 0,
     exception_type |->
         IF match.b # 0 THEN LastSegment(Group(str, match, 1), ".") ELSE "",
     message |->
         IF match.b # 0 THEN _normalize_error_message(Strip(Group(str, match, 2)))
         ELSE "",
     logger |-> FirstLogger(str, Search(logger_pattern, str)),
     first_line |->
         _normalize_error_message(_normalize_first_error_line(
             FirstErrorLine(str, Search(first_error_line_pattern, str))))]

ExceptionTable ==
    {<<str, ExceptionParts(str, Search(exception_pattern, str))>> : str \in ProbeStrings}

\* the signature section 4.2 states for an exception match
StatedSignature(parts) ==
    IF StatedGeneric(parts.message)
    THEN GenericSignature(parts.exception_type, parts.logger, parts.first_line)
    ELSE parts.exception_type \o ": " \o parts.message

\* C17: when the exception pattern matches and the normalized exception
\* message is empty, is '{}' or starts with 'at <dotted-path>', the signature
\* is the ' | '-join of the error type, the logger of the first ERROR line
\* and the normalized first ERROR-line message (those present); in every
\* other exception case it is '<error_type>: <normalized_message>'
C17_GenericFallback ==
    \A i \in 1..Len(evaluations) :
        Tabulated(ExceptionTable, probe).matched
            => evaluations[i][3] = StatedSignature(Tabulated(ExceptionTable, probe))

\* the exception messages on which the test of line 318-323 and the stated
\* one differ
GenericTestsDiffer ==
    /\ Tabulated(ExceptionTable, probe).matched
    /\ IsGeneric(Tabulated(ExceptionTable, probe).message)
           # StatedGeneric(Tabulated(ExceptionTable, probe).message)

\* the stated signature is returned whenever the two tests agree
C17_AgreesWhereTestsAgree ==
    \A i \in 1..Len(evaluations) :
        (Tabulated(ExceptionTable, probe).matched /\ ~GenericTestsDiffer)
            => evaluations[i][3] = StatedSignature(Tabulated(ExceptionTable, probe))

(***************************************************************************)
(* C18                                                                     *)
(***************************************************************************)
\* the characters of a Java identifier as it is printed in a stack frame
IdentifierChars == WordChars \cup {"$"}

\* 'at <class.path>.<method>(' with the class path in com.nice.saas.wfo
ApplicationFrame ==
    Cat(<<Lit("at "),
          Grp(1, Cat(<<Lit("com.nice.saas.wfo"),
                       Plus(Cat(<<Lit("."), Plus(Cls(IdentifierChars))>>))>>)),
          Lit("."), Grp(2, Plus(Cls(IdentifierChars))), Lit("(")>>)

\* the location section 4.3 states, from the first application frame and the
\* first ERROR marker followed by an application class path
StatedLocation(str, frame, marker) ==
    IF frame.b # 0
    THEN LastSegment(Group(str, frame, 1), ".") \o "." \o Group(str, frame, 2)
    ELSE IF marker.b # 0
    THEN LastSegment(Group(str, marker, 1), ".")
    ELSE "Unknown"

LocationTable ==
    {<<str, [stated |-> StatedLocation(str, Search(ApplicationFrame, str),
                                       Search(location_error_pattern, str)),
             frame  |-> Search(ApplicationFrame, str).b # 0,
             same_frame |-> /\ Search(ApplicationFrame, str).b # 0
                            /\ Search(ApplicationFrame, str).b = Search(at_pattern, str).b,
             marker |-> Search(location_error_pattern, str).b # 0]>> :
        str \in ProbeStrings}

\* C18: _extract_error_location returns '<ClassName>.<method>' of the first
\* application-namespace stack frame of the message if there is one, also
\* when an ERROR marker with an application class path exists; otherwise the
\* last dotted segment of the application class path that follows an ERROR
\* marker; otherwise 'Unknown'
C18_LocationRules ==
    probe_location # <<>>
        => probe_location[1] = Tabulated(LocationTable, probe).stated

\* the stated location is returned when the first application frame is the
\* one at_pattern finds, and when the message has no application frame
C18_AgreesOnFoundFrames ==
    (/\ probe_location # <<>>
     /\ \/ Tabulated(LocationTable, probe).same_frame
        \/ ~Tabulated(LocationTable, probe).frame)
        => probe_location[1] = Tabulated(LocationTable, probe).stated

C20_Idempotent ==
    \A i \in 2..Len(normal_forms) : normal_forms[i] = normal_forms[i - 1]

\* no rule matches a text made of placeholder tokens and ordinary text: the
\* strings examined whose normal form is a fixed point
C20_FixedPoints ==
    {str \in ProbeStrings :
        Tabulated(ProbeTable, str).renormalized = Tabulated(ProbeTable, str).normalized}

\* the normal form is a fixed point for every string but the bracket block
\* that the placeholder [NUM] lengthens to 50 characters
C20_IdempotentOnOtherStrings ==
    C20_FixedPoints = ProbeStrings \ {NearLongBlock}

(***************************************************************************)
(* C21                                                                     *)
(***************************************************************************)
\* a placeholder with one more closing bracket than the pass wrote
ExtraBracket(text) ==
    \/ Contains(text, "[TENANT_REDACTED]]")
    \/ Contains(text, "[user:[USER_REDACTED]]]")

\* C21: anonymize_log_message applied to its own result returns it unchanged,
\* and no result, of the first call included, has an extra bracket after a
\* placeholder such as [TENANT_REDACTED] or [user:[USER_REDACTED]]
C21_AnonymizerIdempotent ==
    /\ \A i \in 2..Len(redactions) : redactions[i] = redactions[i - 1]
    /\ \A i \in 1..Len(redactions) : ~ExtraBracket(redactions[i])

\* the strings examined on which a second call changes nothing
C21_FixedPoints ==
    {str \in RedactionStrings :
        Tabulated(RedactionTable, str).twice = Tabulated(RedactionTable, str).once}

\* a second call changes the result exactly for the key=value field whose
\* key is not tenant and for the [user: ...] construct
C21_IdempotentOnOtherStrings ==
    C21_FixedPoints = RedactionStrings \ {"customer=acme failed", "[user: bob] failed"}

(***************************************************************************)
(* C22                                                                     *)
(***************************************************************************)
\* userName='<First Last>'
UserNameField ==
    Cat(<<Lit("userName='"),
          Grp(1, Cat(<<Cls(UpperLetters), Plus(Cls(LowerLetters)), Lit(" "),
                       Cls(UpperLetters), Plus(Cls(LowerLetters))>>)),
          Lit("'")>>)

\* an email address: local part, @, domain, a dot and a top-level name
AddressShape ==
    Grp(1, Cat(<<Plus(Cls(AlNum \cup {".", "_", "%", "+", "-"})), Lit("@"),
                 Plus(Cls(AlNum \cup {".", "-"})), Lit("."), Rep(Cls(Letters), 2, Inf)>>))

\* tenant=<value>
TenantField ==
    Cat(<<Lit("tenant="), Grp(1, Plus(NCls(Whitespace \cup {","})))>>)

\* the user name, the address and the tenant value of str, "" where the
\* field is missing
FieldValue(str, match) ==
    IF match.b # 0 THEN Group(str, match, 1) ELSE ""

FieldsTable ==
    {<<str, [user_name |-> FieldValue(str, Search(UserNameField, str)),
             address   |-> FieldValue(str, Search(AddressShape, str)),
             tenant    |-> FieldValue(str, Search(TenantField, str))]>> :
        str \in RedactionStrings}

HasThreeFields(fields) ==
    fields.user_name # "" /\ fields.address # "" /\ fields.tenant # ""

\* the three placeholders are in the text and the three values are not
FullyRedacted(text, fields) ==
    /\ Contains(text, "[USER_NAME_REDACTED]")
    /\ Contains(text, "[EMAIL_REDACTED]")
    /\ Contains(text, "[TENANT_REDACTED]")
    /\ ~Contains(text, fields.user_name)
    /\ ~Contains(text, fields.address)
    /\ ~Contains(text, fields.tenant)

\* C22: for an input with a userName='<First Last>' field, an email address
\* and a tenant=<value> field, the output of anonymize_log_message contains
\* [USER_NAME_REDACTED], [EMAIL_REDACTED] and [TENANT_REDACTED] and none of
\* the user name, the address and the tenant value
C22_Redaction ==
    \A i \in 1..Len(redactions) :
        HasThreeFields(Tabulated(FieldsTable, probe))
            => FullyRedacted(redactions[i], Tabulated(FieldsTable, probe))

\* the example of section 8 is redacted as section 8 says
C22_ExampleRedacted ==
    (probe = RedactionExample /\ redactions # <<>>)
        => /\ HasThreeFields(Tabulated(FieldsTable, probe))
           /\ Tabulated(FieldsTable, probe).user_name = "John Doe"
           /\ Tabulated(FieldsTable, probe).address = "john.doe@example.com"
           /\ Tabulated(FieldsTable, probe).tenant = "acme_corp123"
           /\ FullyRedacted(redactions[1], Tabulated(FieldsTable, probe))

(***************************************************************************)
(* C23                                                                     *)
(***************************************************************************)
\* the timestamps of the collected rows counted under the signature, in
\* input order
CollectedTimestamps(sigs, signature) ==
    [n \in 1..Cardinality(IndicesOf(sigs, signature)) |->
        error_log_rows[CHOOSE h \in IndicesOf(sigs, signature) :
                          Cardinality({g \in IndicesOf(sigs, signature) : g <= h}) = n].timestamp]

TimestampsMatch(sigs) ==
    /\ DictKeys(error_timestamps) = DictKeys(error_signatures)
    /\ \A j \in 1..Len(error_timestamps) :
          /\ Len(error_timestamps[j].v) = DictGet(error_signatures, error_timestamps[j].k, 0)
          /\ error_timestamps[j].v = CollectedTimestamps(sigs, error_timestamps[j].k)

\* C23: after any number of rows read, every signature of the accumulator
\* has a timestamp list as long as its occurrence count, which lists the
\* timestamps of the rows counted under the signature in input order, the
\* first-seen row's first
C23_TimestampsPerOccurrence == TimestampsMatch(ReadSignatures)

\* a signature counted twice, on rows of different timestamps
C23_Witness ==
    /\ pc = "done"
    /\ \E j \in 1..Len(error_timestamps) :
          /\ Len(error_timestamps[j].v) >= 2
          /\ error_timestamps[j].v[1] # error_timestamps[j].v[2]

(***************************************************************************)
(* ai_analyzer.AIAnalyzer.analyze_error_patterns                           *)
(*                                                                         *)
(* ai_analyzer imports anonymize_text, which anonymizer.py does not define:*)
(* the class is examined as a tree that defines it loads it.               *)
(***************************************************************************)
\* ai_analyzer line 398: classified_errors[:20]
TopErrorCount == 20

MaxRecords == 22

RecordCounts ==
    {0, 1, 2, TopErrorCount - 1, TopErrorCount, TopErrorCount + 1, MaxRecords}

\* a ranked list of n records; record j is the one of rank j
RankedList(n) == [j \in 1..n |-> j]

\* JSON values of a field, and str(value) of line 252
JStr(text) == [t |-> "str", text |-> text]

JNull == [t |-> "null", text |-> ""]

JNum(digits) == [t |-> "num", text |-> digits]

PyStr(value) == IF value.t = "null" THEN "None" ELSE value.text

\* what response.json() returns, or the text it cannot decode
JsonObject(keys, answer, sources) ==
    [t |-> "obj", text |-> "", keys |-> keys, answer |-> answer, sources |-> sources]

JsonOther(t, text) ==
    [t |-> t, text |-> text, keys |-> {}, answer |-> JNull, sources |-> <<>>]

NotJson(text) == JsonOther("text", text)

ErrorReply == "Error processing your request"

\* what requests.post does: it raises Timeout, raises another
\* RequestException, or returns a response
Raises(kind) == [kind |-> kind, status_code |-> 0, body |-> NotJson("")]

Responds(status_code, body) == [kind |-> "response", status_code |-> status_code, body |-> body]

Endpoints ==
    [timeout            |-> Raises("timeout"),
     connection_error   |-> Raises("request_exception"),
     status_500_json    |-> Responds(500, JsonObject({"message"}, JNull, <<>>)),
     status_500_text    |-> Responds(500, NotJson("boom")),
     not_json           |-> Responds(200, NotJson("<html>")),
     answer             |-> Responds(200, JsonObject({"answer"}, JStr("Root cause: x"), <<>>)),
     answer_sources     |-> Responds(200, JsonObject({"answer", "sources"}, JStr("Root cause: x"),
                                                     <<"doc1", "No sources found">>)),
     answer_empty       |-> Responds(200, JsonObject({"answer"}, JStr(""), <<>>)),
     answer_blank       |-> Responds(200, JsonObject({"answer"}, JStr("  "), <<>>)),
     answer_null        |-> Responds(200, JsonObject({"answer"}, JNull, <<>>)),
     answer_error       |-> Responds(200, JsonObject({"answer"}, JStr(ErrorReply), <<>>)),
     no_answer          |-> Responds(200, JsonObject({"message"}, JNull, <<>>)),
     runtime_error      |-> Responds(200, JsonObject({"errorMessage", "errorType", "stackTrace"},
                                                     JNull, <<>>)),
     string             |-> Responds(200, JsonOther("str", "Root cause: x")),
     string_error       |-> Responds(200, JsonOther("str", ErrorReply)),
     string_with_answer |-> Responds(200, JsonOther("str", "The answer is 42")),
     list               |-> Responds(200, JsonOther("list", "")),
     number             |-> Responds(200, JsonOther("num", "5")),
     null               |-> Responds(200, JsonOther("null", ""))]

EndpointNames == DOMAIN Endpoints

\* a function that returns a value or raises: ok, and the value or str(e)
Returns(value) == [ok |-> TRUE, value |-> value]

Raise(message) == [ok |-> FALSE, value |-> message]

\* `key in response_data` for a dict, a str and a list; else a TypeError
HasKey(data, key) ==
    CASE data.t = "obj"  -> key \in data.keys
      [] data.t = "str"  -> Contains(data.text, key)
      [] OTHER           -> FALSE

\* line 258-267: the sources appended to the answer
RECURSIVE NumberedSources(_, _)
NumberedSources(sources, idx) ==
    IF sources = <<>> THEN ""
    ELSE ItoA(idx) \o ". " \o Head(sources) \o "\n" \o NumberedSources(Tail(sources), idx + 1)

ValidSources(sources) ==
    SelectSeq(sources, LAMBDA src : src \notin {"", "No sources found", "Error occurred"})

SourcesText(data) ==
    IF "sources" \in data.keys /\ ValidSources(data.sources) # <<>>
    THEN "\n\n**Sources:**\n" \o NumberedSources(ValidSources(data.sources), 1)
    ELSE ""

\* line 196-269, on json.dumps(response_data): the text always decodes, so
\* the handler of line 217-225 never runs
_parse_lambda_response(data) ==
    IF data.t \in {"num", "null"}
    THEN Raise("argument of type '" \o data.t \o "' is not iterable")
    ELSE IF HasKey(data, "errorMessage") /\ HasKey(data, "errorType")
    THEN Raise("Lambda runtime error")
    ELSE IF ~HasKey(data, "answer")
    THEN IF data.t = "obj" THEN Raise("No 'answer' field in Lambda response")
         ELSE Raise("'" \o data.t \o "' object has no attribute 'keys'")
    ELSE IF data.t # "obj"
    THEN Raise("string indices must be integers")
    ELSE IF PyStr(data.answer) = ErrorReply
    THEN Raise("Lambda processing error: " \o ErrorReply)
    ELSE Returns(PyStr(data.answer) \o SourcesText(data))

\* line 160-161: the check after parsing
NonEmpty(parsed) ==
    IF ~parsed.ok THEN parsed
    ELSE IF parsed.value = "" \/ Strip(parsed.value) = ""
    THEN Raise("Empty response from Lambda function")
    ELSE parsed

\* line 137-177: _call_lambda_function once requests.post has returned; a
\* ValueError raised in the try block is wrapped by the handler of line 174
AfterPost(response) ==
    LET outcome ==
            IF response.status_code # 200
            THEN Raise("API request failed with status " \o ItoA(response.status_code))
            ELSE IF response.body.t = "text"
            THEN Raise("Invalid JSON response from API: " \o response.body.text)
            ELSE NonEmpty(_parse_lambda_response(response.body))
    IN  IF outcome.ok THEN outcome ELSE Raise("Lambda API call failed: " \o outcome.value)

\* a summary of every record of the list: rejected by C29_EndpointCalls
AllErrors(records) == records

\* line 398: top_errors, the records _prepare_error_summary lists
TopErrors(records) ==
    SubSeq(records, 1, IF Len(records) < TopErrorCount THEN Len(records) ELSE TopErrorCount)

\* line 91
is_available ==
    /\ analyzer.REQUESTS_AVAILABLE
    /\ analyzer.api_endpoint # <<>>
    /\ analyzer.api_key # <<>>

\* the dict analyze_error_patterns returns: absent keys are <<>> and ""
Result(status, error_count, health_status, text) ==
    <<[status |-> status, error_count |-> error_count, health_status |-> health_status,
       text |-> text]>>

Calls ==
    {[pc |-> "is_available", REQUESTS_AVAILABLE |-> imported, api_endpoint |-> url,
      api_key |-> key, classified_errors |-> RankedList(n), endpoint |-> name,
      posts |-> <<>>, exception |-> "", analysis |-> "", result |-> <<>>] :
        imported \in BOOLEAN, url \in {<<>>, <<"https://api/analyze">>},
        key \in {<<>>, <<"k">>}, n \in RecordCounts, name \in EndpointNames}

InitAnalyzer ==
    /\ pc = "idle"
    /\ log_group = ""
    /\ log_stream = <<>>
    /\ max_entries = MAX_LOG_ENTRIES
    /\ max_iterations = MAX_LOG_ITERATIONS
    /\ source_endless = FALSE
    /\ ai_importable = TRUE
    /\ FreshCall
    /\ NoBatch
    /\ NoProbe
    /\ analyzer \in Calls
    /\ NoMain

rest_vars == <<inner_vars, batch_vars, probe_vars, main_vars>>

\* line 291-296
ReturnUnavailable ==
    /\ analyzer.pc = "is_available"
    /\ ~is_available
    /\ analyzer' = [analyzer EXCEPT
                      !.pc = "returned",
                      !.result = Result("unavailable", <<>>, "",
                                        "AI analysis is not available.")]
    /\ UNCHANGED rest_vars

\* line 298
EnterTry ==
    /\ analyzer.pc = "is_available"
    /\ is_available
    /\ analyzer' = [analyzer EXCEPT !.pc = "try"]
    /\ UNCHANGED rest_vars

\* line 300-302 and 334-391: no record, the report is made locally
HealthyReport ==
    /\ analyzer.pc = "try"
    /\ Len(analyzer.classified_errors) = 0
    /\ analyzer' = [analyzer EXCEPT
                      !.pc = "returned",
                      !.result = Result("success", <<0>>, "HEALTHY",
                                        "# System Health Report")]
    /\ UNCHANGED rest_vars

\* line 304-314 and 127-132: the summary is prepared and posted;
\* requests.post returns a response or raises (line 166-173)
PostSummary ==
    /\ analyzer.pc = "try"
    /\ Len(analyzer.classified_errors) > 0
    /\ analyzer' =
          [analyzer EXCEPT
              !.posts = Append(@, TopErrors(analyzer.classified_errors)),
              !.pc = IF Endpoints[analyzer.endpoint].kind = "response" THEN "response"
                     ELSE "except",
              !.exception =
                  CASE Endpoints[analyzer.endpoint].kind = "timeout" ->
                           "API request timed out"
                    [] Endpoints[analyzer.endpoint].kind = "request_exception" ->
                           "API request failed: refused"
                    [] OTHER -> ""]
    /\ UNCHANGED rest_vars

\* line 134-164 and 174-177: the response is checked and parsed
HandleResponse ==
    /\ analyzer.pc = "response"
    /\ analyzer' =
          [analyzer EXCEPT
              !.pc = IF AfterPost(Endpoints[analyzer.endpoint]).ok THEN "success"
                     ELSE "except",
              !.analysis = IF AfterPost(Endpoints[analyzer.endpoint]).ok
                           THEN AfterPost(Endpoints[analyzer.endpoint]).value ELSE "",
              !.exception = IF AfterPost(Endpoints[analyzer.endpoint]).ok THEN ""
                            ELSE AfterPost(Endpoints[analyzer.endpoint]).value]
    /\ UNCHANGED rest_vars

\* line 316-324
ReturnSuccess ==
    /\ analyzer.pc = "success"
    /\ analyzer' = [analyzer EXCEPT
                      !.pc = "returned",
                      !.result = Result("success", <<Len(analyzer.classified_errors)>>, "",
                                        analyzer.analysis)]
    /\ UNCHANGED rest_vars

\* line 326-332: except Exception
ReturnError ==
    /\ analyzer.pc = "except"
    /\ analyzer' = [analyzer EXCEPT
                      !.pc = "returned",
                      !.result = Result("error", <<>>, "", analyzer.exception)]
    /\ UNCHANGED rest_vars

NextAnalyzer ==
    \/ ReturnUnavailable
    \/ EnterTry
    \/ HealthyReport
    \/ PostSummary
    \/ HandleResponse
    \/ ReturnSuccess
    \/ ReturnError

AnalyzerSpec == InitAnalyzer /\ [][NextAnalyzer]_vars

(***************************************************************************)
(* C24, C29: the outcome of analyze_error_patterns                         *)
(***************************************************************************)
Returned == analyzer.pc = "returned"

Status == analyzer.result[1].status

\* the endpoint answered 200 with a JSON object whose 'answer' is a string
\* that is not blank
ReturnedNonEmptyAnswer(response) ==
    /\ response.kind = "response"
    /\ response.status_code = 200
    /\ response.body.t = "obj"
    /\ "answer" \in response.body.keys
    /\ response.body.answer.t = "str"
    /\ Strip(response.body.answer.text) # ""

\* C24: analyze_error_patterns returns a result whose status is success,
\* unavailable or error, and the status is success only when the endpoint
\* returned a non-empty answer or the record list was empty.
C24_SuccessOnlyWithAnswer ==
    Returned =>
        /\ Status \in {"success", "unavailable", "error"}
        /\ Status = "success" =>
              \/ analyzer.classified_errors = <<>>
              \/ ReturnedNonEmptyAnswer(Endpoints[analyzer.endpoint])

\* C24, the part that holds: every call returns one of the three statuses and
\* no exception leaves the call; a failure of the request, of the status
\* check, of the decoding or of the parsing is returned as status error.
C24_AlwaysReturnsAStatus ==
    /\ analyzer.pc \in {"none", "is_available", "try", "response", "success", "except",
                        "returned"}
    /\ Returned =>
          /\ Status \in {"success", "unavailable", "error"}
          /\ analyzer.exception # "" => Status = "error"
          /\ (Status = "success" /\ analyzer.classified_errors # <<>>) =>
                /\ Endpoints[analyzer.endpoint].kind = "response"
                /\ Endpoints[analyzer.endpoint].status_code = 200
                /\ Endpoints[analyzer.endpoint].body.t = "obj"
                /\ "answer" \in Endpoints[analyzer.endpoint].body.keys

\* C24: an 'answer' of null is reported as a success whose analysis is 'None'
C24_NullAnswerSucceeds ==
    /\ Returned
    /\ analyzer.classified_errors # <<>>
    /\ Endpoints[analyzer.endpoint].body.answer = JNull
    /\ Status = "success"
    /\ analyzer.result[1].text = "None"

\* C29: an analyzer that is not available, or that is given no record, does
\* not call the endpoint (with no record it reports success, error_count 0
\* and HEALTHY); a call is made at most once per invocation, and it carries
\* at most the first 20 records of the list.
C29_EndpointCalls ==
    /\ Len(analyzer.posts) <= 1
    /\ \A i \in 1..Len(analyzer.posts) :
          /\ Len(analyzer.posts[i]) <= TopErrorCount
          /\ analyzer.posts[i] = SubSeq(analyzer.classified_errors, 1, Len(analyzer.posts[i]))
          /\ Len(analyzer.posts[i]) < TopErrorCount =>
                analyzer.posts[i] = analyzer.classified_errors
    /\ (analyzer.pc # "none" /\ ~is_available) => analyzer.posts = <<>>
    /\ analyzer.classified_errors = <<>> => analyzer.posts = <<>>
    /\ Returned =>
          /\ ~is_available => Status = "unavailable"
          /\ (is_available /\ analyzer.classified_errors = <<>>) =>
                /\ Status = "success"
                /\ analyzer.result[1].error_count = <<0>>
                /\ analyzer.result[1].health_status = "HEALTHY"
          /\ (is_available /\ analyzer.classified_errors # <<>>) => Len(analyzer.posts) = 1

\* C29: a list of more than 20 records was posted once, cut to its first 20
C29_Witness ==
    /\ Returned
    /\ Len(analyzer.classified_errors) > TopErrorCount
    /\ Len(analyzer.posts) = 1
    /\ Len(analyzer.posts[1]) = TopErrorCount

\* C29: no record, and no call
C29_HealthyWithoutCall ==
    /\ Returned
    /\ is_available
    /\ analyzer.classified_errors = <<>>
    /\ analyzer.posts = <<>>
    /\ Status = "success"

(***************************************************************************)
(* C25: the record of a signature and its stored sample                    *)
(***************************************************************************)
\* what a row was extracted to, beside its signature
DetailsOf(msg) == <<Signature(msg)[1], Signature(msg)[2]>>

\* the signatures whose rows read so far differ in location or type
MixedSignatures(rows, sigs) ==
    {k \in SignaturesIn(sigs) :
        \E i, j \in IndicesOf(sigs, k) :
            DetailsOf(rows[i].log_message) # DetailsOf(rows[j].log_message)}

\* C25: the location and the error type recorded for a signature are those
\* extracted from the sample message stored for it, the first row of the
\* signature, even when later rows of the signature carry another stack
\* frame or logger; and so are the Location and the Sample Error Message of
\* its record of classified_errors.csv.
C25_DetailsOfSample ==
    /\ \A j \in 1..Len(error_details) :
          /\ DictHas(error_examples, error_details[j].k)
          /\ error_details[j].v.location
                = Signature(DictGet(error_examples, error_details[j].k, ""))[2]
          /\ error_details[j].v.type
                = Signature(DictGet(error_examples, error_details[j].k, ""))[1]
    /\ Len(classified_csv) > 0 =>
          \A j \in 1..Len(sorted_errors) :
              classified_csv[j + 1] =
                 CsvRecord(<<sorted_errors[j].k, ItoA(sorted_errors[j].v),
                             Signature(DictGet(error_examples, sorted_errors[j].k, ""))[2],
                             DictGet(error_examples, sorted_errors[j].k, "")>>)

\* C25, what holds: the record of a signature whose rows all carry one
\* location and one type agrees with its sample
C25_AgreesOnUniformSignatures ==
    \A j \in 1..Len(error_details) :
        error_details[j].k \notin MixedSignatures(RowsRead, ReadSignatures) =>
            /\ error_details[j].v.location
                  = Signature(DictGet(error_examples, error_details[j].k, ""))[2]
            /\ error_details[j].v.type
                  = Signature(DictGet(error_examples, error_details[j].k, ""))[1]

\* C25: the table reports the location of the last row beside the sample of
\* the first
C25_LocationOfLastRow ==
    /\ log_stream = <<FRAME1, FRAME2>>
    /\ Len(classified_csv) = 2
    /\ DictGet(error_examples, "IllegalStateException: order rejected", "")
          = RowsRead[1].log_message
    /\ Signature(RowsRead[1].log_message)[2] = "OrderService.call"
    /\ classified_csv[2] =
          CsvRecord(<<"IllegalStateException: order rejected", "2", "InvoiceService.post",
                      RowsRead[1].log_message>>)

(***************************************************************************)
(* C26: pagination, page by page                                           *)
(***************************************************************************)
\* the pagination loop has ended and no fetch has raised
LoopEnded ==
    /\ pc \in {"save", "classify", "ai", "return", "done"}
    /\ fetch_error = ""

\* the rows of the pages processed, page after page
RECURSIVE RowsOfPages(_)
RowsOfPages(pages) ==
    IF pages = <<>> THEN <<>>
    ELSE RowsOfPages(SubSeq(pages, 1, Len(pages) - 1))
            \o process_log_events(pages[Len(pages)].events)

RECURSIVE EventsOfPages(_)
EventsOfPages(pages) ==
    IF pages = <<>> THEN <<>>
    ELSE EventsOfPages(SubSeq(pages, 1, Len(pages) - 1)) \o pages[Len(pages)].events

\* C26: when no fetch raises, the loop ends with a token outstanding only
\* because a cap was met (max_entries rows collected, or max_iterations
\* fetches made).  Otherwise the source ran out of pages, and then: the
\* first request carried no token and each later one the nextToken of the
\* response before it; no page was requested twice, the pages are those
\* of the stream in its order; the rows collected, and saved to
\* error_logs.csv, are the rows of the pages in page order.
C26_PagesInOrder ==
    LoopEnded =>
        /\ Len(requests) = iteration_count
        /\ iteration_count <= max_iterations
        /\ next_token # <<>> =>
              \/ Len(error_log_rows) >= max_entries
              \/ iteration_count >= max_iterations
        /\ requests[1].sent = <<>>
        /\ \A i \in 2..Len(requests) :
              /\ requests[i - 1].returned # <<>>
              /\ requests[i].sent = requests[i - 1].returned
              /\ source_endless \/ PageStart(requests[i].sent) > PageStart(requests[i - 1].sent)
        /\ requests[Len(requests)].returned = next_token
        /\ \A i \in 1..Len(requests) :
              requests[i].events =
                 SubSeq(log_stream, PageStart(requests[i].sent) + 1,
                        PageStart(requests[i].sent) + Len(requests[i].events))
        /\ EventsOfPages(requests) = SubSeq(log_stream, 1, Len(fetched))
        /\ fetched = EventsOfPages(requests)
        /\ error_log_rows = RowsOfPages(requests)
        /\ pc # "save" =>
              error_logs_csv =
                 <<CsvRecord(ErrorLogsHeader)>>
                    \o [j \in 1..Len(RowsOfPages(requests)) |->
                           CsvRecord(<<RowsOfPages(requests)[j].timestamp,
                                       RowsOfPages(requests)[j].log_message>>)]

\* C26: a source of three pages was read to its end, below both caps
C26_Witness ==
    /\ LoopEnded
    /\ pc = "done"
    /\ next_token = <<>>
    /\ Len(requests) = 3
    /\ iteration_count < max_iterations
    /\ Len(error_log_rows) = 3
    /\ Len(error_log_rows) < max_entries
    /\ fetched = log_stream

(***************************************************************************)
(* C27: ai_analysis.json and the run that wrote it                         *)
(***************************************************************************)
\* the runs of getAllMetricDetails' loop that have ended for the folder
RunsOf(folder) ==
    {i \in 1..pairing_index :
        Configured(selected_pairings[i]) /\ RegionFolder(selected_pairings[i]) = folder}

\* C27: the ai_analysis.json a region folder holds once a run for its
\* pairing has ended was written by that run: a run whose AI call returned
\* 'error', whose AI stage was skipped or whose classification aborted
\* leaves no ai_analysis.json of an earlier run.
C27_AnalysisIsOfLastRun ==
    \A j \in 1..Len(region_files) :
        region_files[j].v.ai_analysis # <<>> =>
            region_files[j].v.ai_analysis[1].run = MaxOf(RunsOf(region_files[j].k))

\* C27, what holds: the file was written by some run for the pairing, the
\* last one or an earlier one, whose analyzer returned a status other than
\* 'error'
C27_AnalysisIsOfSomeRun ==
    \A j \in 1..Len(region_files) :
        region_files[j].v.ai_analysis # <<>> =>
            /\ region_files[j].v.ai_analysis[1].run \in RunsOf(region_files[j].k)
            /\ region_files[j].v.ai_analysis[1].status \in {"success", "unavailable"}

\* C27: after the second run for a pairing, the folder holds the successful
\* analysis of the first
C27_EarlierAnalysisLeft ==
    /\ region_pc = "loop"
    /\ pairing_index = 2
    /\ selected_pairings[1] = selected_pairings[2]
    /\ Len(region_files) = 1
    /\ region_files[1].v.ai_analysis = <<[run |-> 1, status |-> "success"]>>

(***************************************************************************)
(* C28: the classifier of classify_errors.py and the one of csv_helper.py  *)
(***************************************************************************)
\* C28: extract_error_signature of classify_errors returns, for every
\* message, the triple (type, location, signature) that
\* _extract_error_signature of csv_helper returns, so that the two
\* classifiers write the same table.
C28_ClassifiersAgree ==
    \A i \in 1..Len(standalone) :
        standalone[i] = Tabulated(ClassifierTable, probe).pipeline

\* C28, what holds: the two agree on the type and the location of the
\* messages examined whose exception is of no package beside wfo, and on
\* their signature unless the exception message is generic
C28_AgreeOffGenericMessages ==
    \A i \in 1..Len(standalone) :
        probe \in ProbeStrings =>
            /\ standalone[i][1] = Tabulated(ClassifierTable, probe).pipeline[1]
            /\ standalone[i][2] = Tabulated(ClassifierTable, probe).pipeline[2]
            /\ ~Tabulated(ClassifierTable, probe).generic =>
                  standalone[i] = Tabulated(ClassifierTable, probe).pipeline

\* C28: a generic exception message is classified under two signatures
C28_GenericDiffers ==
    /\ probe = "ServiceCallException: n/a"
    /\ standalone # <<>>
    /\ standalone[1] = <<"ServiceCallException", "Unknown", "ServiceCallException: n/a">>
    /\ Tabulated(ClassifierTable, probe).pipeline
          = <<"ServiceCallException", "Unknown", "ServiceCallException">>

(***************************************************************************)
(* main.main and AWSProfileManager.validate_credentials                    *)
(***************************************************************************)
\* what the validation meets: no session (boto3.Session() failed in
\* _initialize_profiles, line 34-50), or what sts.get_caller_identity() does:
\* it returns the identity, raises a ClientError (ExpiredToken or another
\* code), or raises another exception
StsOutcomes ==
    {"no_session", "identity", "ExpiredToken", "AccessDenied", "EndpointConnectionError"}

ClientErrors == {"ExpiredToken", "AccessDenied"}

\* aws_profile_manager line 116-151
validate_credentials(sts) ==
    IF sts = "no_session" THEN FALSE
    ELSE IF sts = "identity" THEN TRUE
    ELSE IF sts \in ClientErrors THEN FALSE
    ELSE FALSE

\* a main that goes on whatever the validation returned: rejected by
\* C30_CredentialGate
NeverReturnsEarly(valid) == FALSE

\* main line 51: the condition of the early return
ReturnsEarly(valid) == ~valid

\* the operations of main that read from AWS or write below output/
GatedOperations ==
    {"getAllMetricDetails", "save_all_widgets_for_all_regions", "consolidate_monitoring_data"}

\* line 68-72
services_to_collect(run) ==
    (IF run.ENABLE_SRA THEN <<"SRA">> ELSE <<>>) \o (IF run.ENABLE_SRM THEN <<"SRM">> ELSE <<>>)

Invocations ==
    {[pc |-> "validate", sts |-> sts, ENABLE_SRA |-> sra, ENABLE_SRM |-> srm,
      ENABLE_SCREENSHOTS |-> shots, GENERATE_PDF_REPORT |-> pdf, KEEP_INDIVIDUAL_CSVS |-> keep,
      validated |-> <<>>, steps |-> <<>>, artifacts |-> {}, raised |-> ""] :
        sts \in StsOutcomes, sra \in BOOLEAN, srm \in BOOLEAN, shots \in BOOLEAN,
        pdf \in BOOLEAN, keep \in BOOLEAN}

InitMain ==
    /\ pc = "idle"
    /\ log_group = ""
    /\ log_stream = <<>>
    /\ max_entries = MAX_LOG_ENTRIES
    /\ max_iterations = MAX_LOG_ITERATIONS
    /\ source_endless = FALSE
    /\ ai_importable = AI_ANALYSIS_AVAILABLE
    /\ FreshCall
    /\ NoBatch
    /\ NoProbe
    /\ NoAnalyzer
    /\ main_run \in Invocations

other_vars == <<inner_vars, batch_vars, probe_vars, analyzer_vars>>

\* line 48-51: validate_credentials(DATA_PROFILE) is called
ValidateCredentials ==
    /\ main_run.pc = "validate"
    /\ main_run' = [main_run EXCEPT
                      !.validated = <<validate_credentials(main_run.sts)>>,
                      !.steps = Append(@, "validate_credentials"),
                      !.pc = "gate"]
    /\ UNCHANGED other_vars

\* line 51-63: the validation failed, main prints the advice and returns
ReturnInvalid ==
    /\ main_run.pc = "gate"
    /\ ReturnsEarly(main_run.validated[1])
    /\ main_run' = [main_run EXCEPT !.pc = "returned"]
    /\ UNCHANGED other_vars

\* line 65-72
PassGate ==
    /\ main_run.pc = "gate"
    /\ ~ReturnsEarly(main_run.validated[1])
    /\ main_run' = [main_run EXCEPT !.pc = "collect"]
    /\ UNCHANGED other_vars

\* line 74-81: getAllMetricDetails returns, the region folders written
Collect ==
    /\ main_run.pc = "collect"
    /\ services_to_collect(main_run) # <<>>
    /\ main_run' = [main_run EXCEPT
                      !.steps = Append(@, "getAllMetricDetails"),
                      !.artifacts = @ \cup {"csv_data"},
                      !.pc = "screenshots"]
    /\ UNCHANGED other_vars

\* line 76: getAllMetricDetails raises, with or without files written;
\* main has no handler
CollectRaises ==
    /\ main_run.pc = "collect"
    /\ services_to_collect(main_run) # <<>>
    /\ \E written \in SUBSET {"csv_data"} :
          main_run' = [main_run EXCEPT
                         !.steps = Append(@, "getAllMetricDetails"),
                         !.artifacts = @ \cup written,
                         !.raised = "getAllMetricDetails",
                         !.pc = "propagated"]
    /\ UNCHANGED other_vars

\* line 82-83: no service is enabled
NoServices ==
    /\ main_run.pc = "collect"
    /\ services_to_collect(main_run) = <<>>
    /\ main_run' = [main_run EXCEPT !.pc = "screenshots"]
    /\ UNCHANGED other_vars

\* line 86-92
Screenshots ==
    /\ main_run.pc = "screenshots"
    /\ main_run.ENABLE_SCREENSHOTS /\ services_to_collect(main_run) # <<>>
    /\ main_run' = [main_run EXCEPT
                      !.steps = Append(@, "save_all_widgets_for_all_regions"),
                      !.artifacts = @ \cup {"screenshots"},
                      !.pc = "consolidate"]
    /\ UNCHANGED other_vars

\* line 88: save_all_widgets_for_all_regions raises; main has no handler
ScreenshotsRaise ==
    /\ main_run.pc = "screenshots"
    /\ main_run.ENABLE_SCREENSHOTS /\ services_to_collect(main_run) # <<>>
    /\ \E written \in SUBSET {"screenshots"} :
          main_run' = [main_run EXCEPT
                         !.steps = Append(@, "save_all_widgets_for_all_regions"),
                         !.artifacts = @ \cup written,
                         !.raised = "save_all_widgets_for_all_regions",
                         !.pc = "propagated"]
    /\ UNCHANGED other_vars

\* line 93-94, and the case neither branch takes
NoScreenshots ==
    /\ main_run.pc = "screenshots"
    /\ ~(main_run.ENABLE_SCREENSHOTS /\ services_to_collect(main_run) # <<>>)
    /\ main_run' = [main_run EXCEPT !.pc = "consolidate"]
    /\ UNCHANGED other_vars

\* line 109-116 and consolidator line 516-538: the reports are written and,
\* unless the CSV files are kept, the individual files removed
Consolidate ==
    /\ main_run.pc = "consolidate"
    /\ main_run' = [main_run EXCEPT
                      !.steps = Append(@, "consolidate_monitoring_data"),
                      !.artifacts =
                          ((@ \cup {"consolidated_json", "consolidated_markdown"})
                              \cup (IF main_run.GENERATE_PDF_REPORT THEN {"pdf"} ELSE {}))
                            \ (IF main_run.KEEP_INDIVIDUAL_CSVS THEN {} ELSE {"csv_data"}),
                      !.pc = "summary"]
    /\ UNCHANGED other_vars

\* line 117-121: consolidate_monitoring_data raises, with some of its
\* reports written; the handler prints a warning
ConsolidateRaises ==
    /\ main_run.pc = "consolidate"
    /\ \E written \in SUBSET {"consolidated_json", "consolidated_markdown"} :
          main_run' = [main_run EXCEPT
                         !.steps = Append(@, "consolidate_monitoring_data"),
                         !.artifacts = @ \cup written,
                         !.pc = "summary"]
    /\ UNCHANGED other_vars

\* line 123-154: the summary is printed and main returns
ReturnFromMain ==
    /\ main_run.pc = "summary"
    /\ main_run' = [main_run EXCEPT !.pc = "returned"]
    /\ UNCHANGED other_vars

NextMain ==
    \/ ValidateCredentials
    \/ ReturnInvalid
    \/ PassGate
    \/ Collect
    \/ CollectRaises
    \/ NoServices
    \/ Screenshots
    \/ ScreenshotsRaise
    \/ NoScreenshots
    \/ Consolidate
    \/ ConsolidateRaises
    \/ ReturnFromMain

MainSpec == InitMain /\ [][NextMain]_vars

(***************************************************************************)
(* C30: the credential gate of main                                        *)
(***************************************************************************)
\* C30: main collects no metrics or logs, captures no screenshot and
\* consolidates nothing unless validate_credentials(DATA_PROFILE) returned
\* True earlier in the invocation, which it does only when the STS call
\* succeeded; when it returned False (no session, expired token, another
\* client error, any other exception) main does nothing more, returns, and
\* has written no artifact.
C30_CredentialGate ==
    /\ \A i \in 1..Len(main_run.steps) :
          main_run.steps[i] \in GatedOperations =>
              /\ main_run.validated = <<TRUE>>
              /\ \E h \in 1..(i - 1) : main_run.steps[h] = "validate_credentials"
    /\ main_run.artifacts # {} => main_run.validated = <<TRUE>>
    /\ main_run.validated = <<TRUE>> => main_run.sts = "identity"
    /\ main_run.validated = <<FALSE>> =>
          /\ main_run.pc \in {"gate", "returned"}
          /\ main_run.steps = <<"validate_credentials">>
          /\ main_run.artifacts = {}
          /\ main_run.raised = ""

\* C30: after a validation that returned True, main collected, captured
\* and consolidated
C30_Witness ==
    /\ main_run.pc = "returned"
    /\ main_run.validated = <<TRUE>>
    /\ main_run.steps = <<"validate_credentials", "getAllMetricDetails",
                          "save_all_widgets_for_all_regions", "consolidate_monitoring_data">>
    /\ "csv_data" \in main_run.artifacts

\* C30: with an expired token main has returned and done nothing else
C30_Refused ==
    /\ main_run.pc = "returned"
    /\ main_run.sts = "ExpiredToken"
    /\ main_run.validated = <<FALSE>>
    /\ main_run.steps = <<"validate_credentials">>
    /\ main_run.artifacts = {}

====
